---- MODULE Spec2Model ----
(***************************************************************************)
(* Product Intelligence Engine of the marketplace: the recommendation      *)
(* service (vector index, persistence, strategies), the classification     *)
(* service helpers (keywords, price range) and the recommendation          *)
(* endpoints, over a relational catalog and order store.                   *)
(*                                                                         *)
(* Units: prices are in cents (DECIMAL(10,2)); ratings are in hundredths   *)
(* (DECIMAL(3,2)); time is in days; a normalized embedding is a vector in  *)
(* units of 1/5 and a similarity score is in units of 1/25.                *)
(***************************************************************************)
EXTENDS Integers, Sequences, FiniteSets, TLC

VARIABLES
    products,       \* table products: id -> row, or NoRow once deleted / not yet created
    next_product_id,\* autoincrement of products.id
    orders,         \* table orders: sequence of rows, order id = position
    order_items,    \* table order_items: sequence of rows
    now,            \* the clock (datetime.utcnow / func.now), in days
    vector_file,    \* product_embeddings.pkl under VECTOR_DB_PATH
    index_file,     \* product_index.faiss under VECTOR_DB_PATH
    service,        \* the RecommendationService instance of the last request
    resp,           \* the last request and its response
    env_steps,      \* number of catalog / order changes made so far
    text_in,        \* input text of the classification helpers
    kw_out,         \* result of _extract_keywords on text_in
    price_out,      \* result of _suggest_price_range
    workers,        \* server processes handling a request step by step
    builds,         \* the (embedding map, index) pairs of the completed builds
    model_files,    \* category_classifier.pkl and tag_classifier.pkl
    class_out,      \* result of the last classification call
    payments,       \* table payments: sequence of rows, transaction = position
    payouts         \* table seller_payouts: sequence of rows

vars == <<products, next_product_id, orders, order_items, now, vector_file,
          index_file, service, resp, env_steps, text_in, kw_out, price_out,
          workers, builds, model_files, class_out, payments, payouts>>

----------------------------------------------------------------------------
(* Bounds of the model *)

MaxProductId == 4      \* products.id ranges over 1..MaxProductId
MaxEnvSteps == 1       \* catalog / order changes per behaviour
MaxLimit == 2          \* request limit ranges over 0..MaxLimit
MaxNow == 11           \* the clock stops here
MaxTextLen == 3        \* length of the enumerated input texts
MaxPrices == 3         \* number of priced products in the enumerated categories

(* Program constants *)

SimilarPerPurchase == 5     \* get_similar_products(product_id, limit=5)
TrendingWindowDays == 7     \* timedelta(days=7)
MinKeywordLen == 2          \* len(word) > 2

None == "None"    \* None of an optional string
NoneInt == -1     \* None of an Optional[int] request field
NoRow == [exists |-> FALSE]

ProductIds == 1..MaxProductId
UserIds == 1..2
CategoryIds == 1..2

NotCancelledStatuses == {"pending", "paid", "processing", "shipped", "delivered"}

\* Order.status.in_(["paid", "processing", "shipped", "delivered"])
QualifyingStatuses == {"paid", "processing", "shipped", "delivered"}
OrderStatuses == {"pending", "paid", "processing", "shipped", "delivered",
                  "cancelled", "refunded"}
ProductStatuses == {"draft", "active", "inactive", "archived"}

----------------------------------------------------------------------------
(* Generic sequence helpers *)

Range(s) == {s[i] : i \in 1..Len(s)}

Take(s, n) == IF n <= 0 THEN <<>> ELSE SubSeq(s, 1, IF n < Len(s) THEN n ELSE Len(s))

RECURSIVE SeqSum(_)
SeqSum(s) == IF s = <<>> THEN 0 ELSE Head(s) + SeqSum(Tail(s))

RECURSIVE SeqMin(_)
SeqMin(s) == IF Len(s) = 1 THEN s[1]
             ELSE LET m == SeqMin(Tail(s)) IN IF s[1] < m THEN s[1] ELSE m

RECURSIVE SeqMax(_)
SeqMax(s) == IF Len(s) = 1 THEN s[1]
             ELSE LET m == SeqMax(Tail(s)) IN IF s[1] > m THEN s[1] ELSE m

Max2(a, b) == IF a >= b THEN a ELSE b
Min2(a, b) == IF a <= b THEN a ELSE b

\* Python truth value of an Optional[int]: None and 0 are false.
Truthy(x) == x # NoneInt /\ x # 0

NoDuplicates(s) == \A i, j \in 1..Len(s) : i # j => s[i] # s[j]

----------------------------------------------------------------------------
(* Catalog rows *)

Exists(p) == p \in DOMAIN products /\ products[p].exists

ExistingIds == {p \in ProductIds : products[p].exists}

ActiveIds == {p \in ExistingIds : products[p].status = "active"}

\* Ascending list of a set of ids (the primary-key order a table scan yields).
RECURSIVE IdList(_)
IdList(S) == IF S = {} THEN <<>>
             ELSE LET m == CHOOSE x \in S : \A y \in S : x <= y
                  IN <<m>> \o IdList(S \ {m})

----------------------------------------------------------------------------
(* Embedding generator and vector index *)

Dimension == 2

RECURSIVE JoinTags(_)
JoinTags(tags) == IF tags = <<>> THEN ""
                  ELSE IF Len(tags) = 1 THEN tags[1]
                  ELSE tags[1] \o " " \o JoinTags(Tail(tags))

\* _build_vector_db: the text embedded for a product.
ProductText(row) ==
    LET t1 == row.title
        t2 == IF row.description # None THEN t1 \o " " \o row.description ELSE t1
    IN IF row.tags # <<>> THEN t2 \o " " \o JoinTags(row.tags) ELSE t2

\* SentenceTransformer.encode on one text: a fixed function of the text. The
\* raw vectors have different lengths; two texts may share a direction.
Encode(text) ==
    CASE text = "wallet"          -> <<6, 8>>
      [] text = "leather wallet"  -> <<3, 4>>
      [] text = "purse"           -> <<4, 3>>
      [] text = "phone tech"      -> <<0, 10>>
      [] text = "phone"           -> <<0, 5>>
      [] text = "case"            -> <<5, 0>>
      [] OTHER                    -> <<-3, 4>>

Dot(u, v) == u[1] * v[1] + u[2] * v[2]

Norm(v) == CHOOSE n \in 0..20 : n * n = Dot(v, v)

\* faiss.normalize_L2 on one row: the unit vector, in units of 1/5.
NormalizeL2(v) == <<(v[1] * 5) \div Norm(v), (v[2] * 5) \div Norm(v)>>

NoIndex == [present |-> FALSE]

IndexFlatIPReversed(d, vecs) ==
    [present |-> TRUE, d |-> d, xb |-> [i \in 1..Len(vecs) |-> vecs[Len(vecs) + 1 - i]]]

\* faiss.IndexFlatIP(dimension) followed by index.add(embeddings)
IndexFlatIP(d, vecs) == [present |-> TRUE, d |-> d, xb |-> vecs]

\* The positions 0..n-1 of the index by inner product with q, best first; equal
\* scores in ascending position.
RECURSIVE Ranked(_, _, _)
Ranked(xb, q, S) ==
    IF S = {} THEN <<>>
    ELSE LET b == CHOOSE i \in S : \A j \in S :
                     \/ Dot(q, xb[i + 1]) > Dot(q, xb[j + 1])
                     \/ Dot(q, xb[i + 1]) = Dot(q, xb[j + 1]) /\ i <= j
         IN <<[score |-> Dot(q, xb[b + 1]), idx |-> b]>> \o Ranked(xb, q, S \ {b})

\* index.search(q, k): k hits, padded with idx -1 when the index holds fewer.
Search(index, q, k) ==
    LET n == Len(index.xb)
        r == Ranked(index.xb, q, 0..(n - 1))
    IN [i \in 1..k |-> IF i <= n THEN r[i] ELSE [score |-> -999, idx |-> -1]]

----------------------------------------------------------------------------
(* Persistence of the artifacts *)

NoFile == [exists |-> FALSE, bytes |-> <<>>]

RECURSIVE FlattenMap(_)
FlattenMap(m) == IF m = <<>> THEN <<>>
                 ELSE <<m[1].id, m[1].emb[1], m[1].emb[2]>> \o FlattenMap(Tail(m))

\* pickle.dump of the embedding map: the entry count, then each entry in
\* insertion order.
PickleDump(m) == <<Len(m)>> \o FlattenMap(m)

PickleLoadSorted(bytes) ==
    LET m == [i \in 1..bytes[1] |->
                 [id |-> bytes[3 * i - 1], emb |-> <<bytes[3 * i], bytes[3 * i + 1]>>]]
        ids == IdList({m[i].id : i \in 1..Len(m)})
    IN [i \in 1..Len(m) |-> CHOOSE e \in Range(m) : e.id = ids[Len(m) + 1 - i]]

\* pickle.load of the embedding map
PickleLoad(bytes) ==
    [i \in 1..bytes[1] |->
        [id |-> bytes[3 * i - 1], emb |-> <<bytes[3 * i], bytes[3 * i + 1]>>]]

RECURSIVE FlattenVecs(_)
FlattenVecs(xb) == IF xb = <<>> THEN <<>>
                   ELSE <<xb[1][1], xb[1][2]>> \o FlattenVecs(Tail(xb))

\* faiss.write_index: dimension, ntotal, then the stored vectors in position order.
WriteIndex(index) == <<index.d, Len(index.xb)>> \o FlattenVecs(index.xb)

\* faiss.read_index
ReadIndex(bytes) ==
    [present |-> TRUE, d |-> bytes[1],
     xb |-> [i \in 1..bytes[2] |-> <<bytes[2 * i + 1], bytes[2 * i + 2]>>]]

\* _save_vector_db: the two files after the save.
SaveVectorDb(svc, vfile, ifile) ==
    [vector_file |-> [exists |-> TRUE, bytes |-> PickleDump(svc.product_embeddings)],
     index_file |-> IF svc.index.present
                    THEN [exists |-> TRUE, bytes |-> WriteIndex(svc.index)]
                    ELSE ifile]

\* _build_vector_db: the service fields and the files after a build.
BuildVectorDb(db, vfile, ifile) ==
    LET ids == IdList({p \in ProductIds : db[p].exists /\ db[p].status = "active"})
    IN IF ids = <<>>
       THEN [service |-> [product_embeddings |-> <<>>, index |-> NoIndex],
             vector_file |-> vfile, index_file |-> ifile, built |-> TRUE,
             raised |-> FALSE]
       ELSE LET embeddings == [i \in 1..Len(ids) |->
                                  NormalizeL2(Encode(ProductText(db[ids[i]])))]
                svc == [product_embeddings |->
                            [i \in 1..Len(ids) |-> [id |-> ids[i], emb |-> embeddings[i]]],
                        index |-> IndexFlatIP(Dimension, embeddings)]
                saved == SaveVectorDb(svc, vfile, ifile)
            IN [service |-> svc, vector_file |-> saved.vector_file,
                index_file |-> saved.index_file, built |-> TRUE, raised |-> FALSE]

\* pickle.load succeeds on the bytes pickle.dump wrote and raises on a
\* truncated file.
PickleReadable(bytes) == Len(bytes) >= 1 /\ Len(bytes) = 1 + 3 * bytes[1]

\* faiss.read_index succeeds on the bytes faiss.write_index wrote and raises on
\* a truncated file.
IndexReadable(bytes) == Len(bytes) >= 2 /\ Len(bytes) = 2 + 2 * bytes[2]

\* _load_or_create_vector_db (called by __init__). `raised` tells that the
\* load raised: there is no handler, the exception leaves the constructor.
LoadOrCreateRebuilds(db, vfile, ifile) == BuildVectorDb(db, vfile, ifile)

LoadOrCreateVectorDb(db, vfile, ifile) ==
    IF vfile.exists /\ ifile.exists
    THEN IF PickleReadable(vfile.bytes) /\ IndexReadable(ifile.bytes)
         THEN [service |-> [product_embeddings |-> PickleLoad(vfile.bytes),
                            index |-> ReadIndex(ifile.bytes)],
               vector_file |-> vfile, index_file |-> ifile, built |-> FALSE,
               raised |-> FALSE]
         ELSE [service |-> [product_embeddings |-> <<>>, index |-> NoIndex],
               vector_file |-> vfile, index_file |-> ifile, built |-> FALSE,
               raised |-> TRUE]
    ELSE BuildVectorDb(db, vfile, ifile)

----------------------------------------------------------------------------
(* Recommendation strategies *)

Keys(m) == [i \in 1..Len(m) |-> m[i].id]

HasEmbedding(svc, product_id) ==
    \E i \in 1..Len(svc.product_embeddings) : svc.product_embeddings[i].id = product_id

EmbeddingOf(svc, product_id) ==
    (CHOOSE e \in Range(svc.product_embeddings) : e.id = product_id).emb

ImageUrl(row) == IF row.images # <<>> THEN row.images[1] ELSE None

Rec(id, row, score, reason) ==
    [product_id |-> id, title |-> row.title, price |-> row.price,
     image_url |-> ImageUrl(row), score |-> score, reason |-> reason]

RECURSIVE SimilarLoopKeepSelf(_, _, _, _)
SimilarLoopKeepSelf(hits, product_ids, db, product_id) ==
    IF hits = <<>> THEN <<>>
    ELSE LET h == hits[1]
             rest == SimilarLoopKeepSelf(Tail(hits), product_ids, db, product_id)
         IN IF h.idx = -1 \/ h.idx >= Len(product_ids) THEN rest
            ELSE LET sid == product_ids[h.idx + 1]
                 IN IF db[sid].exists
                    THEN <<Rec(sid, db[sid], h.score, "Similar product")>> \o rest
                    ELSE rest

RECURSIVE SimilarLoopActiveOnly(_, _, _, _)
SimilarLoopActiveOnly(hits, product_ids, db, product_id) ==
    IF hits = <<>> THEN <<>>
    ELSE LET h == hits[1]
             rest == SimilarLoopActiveOnly(Tail(hits), product_ids, db, product_id)
         IN IF h.idx = -1 \/ h.idx >= Len(product_ids) THEN rest
            ELSE LET sid == product_ids[h.idx + 1]
                 IN IF sid # product_id /\ db[sid].exists /\ db[sid].status = "active"
                    THEN <<Rec(sid, db[sid], h.score, "Similar product")>> \o rest
                    ELSE rest

\* The loop of get_similar_products over the hits of the search.
RECURSIVE SimilarLoop(_, _, _, _)
SimilarLoop(hits, product_ids, db, product_id) ==
    IF hits = <<>> THEN <<>>
    ELSE LET h == hits[1]
             rest == SimilarLoop(Tail(hits), product_ids, db, product_id)
         IN IF h.idx = -1 THEN rest
            ELSE IF h.idx < Len(product_ids)
                 THEN LET sid == product_ids[h.idx + 1]
                      IN IF sid = product_id THEN rest
                         ELSE IF db[sid].exists
                              THEN <<Rec(sid, db[sid], h.score, "Similar product")>> \o rest
                              ELSE rest
                 ELSE rest

get_similar_products_any(svc, db, product_id, limit) ==
    IF ~svc.index.present THEN <<>>
    ELSE LET q == IF HasEmbedding(svc, product_id) THEN EmbeddingOf(svc, product_id)
                  ELSE svc.product_embeddings[1].emb
             hits == Search(svc.index, q, limit + 1)
         IN Take(SimilarLoop(hits, Keys(svc.product_embeddings), db, product_id), limit)

get_similar_products_k(svc, db, product_id, limit) ==
    IF ~HasEmbedding(svc, product_id) \/ ~svc.index.present THEN <<>>
    ELSE LET hits == Search(svc.index, EmbeddingOf(svc, product_id), limit)
         IN Take(SimilarLoop(hits, Keys(svc.product_embeddings), db, product_id), limit)

\* RecommendationService.get_similar_products
get_similar_products(svc, db, product_id, limit) ==
    IF ~HasEmbedding(svc, product_id) \/ ~svc.index.present THEN <<>>
    ELSE LET hits == Search(svc.index, EmbeddingOf(svc, product_id), limit + 1)
         IN Take(SimilarLoop(hits, Keys(svc.product_embeddings), db, product_id), limit)

\* ORDER BY k1 DESC, k2 DESC over a set of product ids; rows equal on both keys
\* come in primary-key order.
RECURSIVE OrderByDesc(_, _, _)
OrderByDesc(S, k1, k2) ==
    IF S = {} THEN <<>>
    ELSE LET b == CHOOSE x \in S : \A y \in S :
                     \/ k1[x] > k1[y]
                     \/ k1[x] = k1[y] /\ k2[x] > k2[y]
                     \/ k1[x] = k1[y] /\ k2[x] = k2[y] /\ x <= y
         IN <<b>> \o OrderByDesc(S \ {b}, k1, k2)

ActiveOf(db) == {p \in ProductIds : db[p].exists /\ db[p].status = "active"}

Zero == [p \in ProductIds |-> 0]

\* RecommendationService.get_popular_products
get_popular_products(db, limit) ==
    LET S == ActiveOf(db)
        ids == Take(OrderByDesc(S, [p \in ProductIds |-> IF p \in S THEN db[p].sales_count ELSE 0],
                                   [p \in ProductIds |-> IF p \in S THEN db[p].rating ELSE 0]), limit)
    IN [i \in 1..Len(ids) |-> Rec(ids[i], db[ids[i]], db[ids[i]].sales_count, "Popular product")]

\* RecommendationService.get_category_recommendations
get_category_recommendations(db, category_id, limit) ==
    LET S == {p \in ActiveOf(db) : db[p].category_id = category_id}
        ids == Take(OrderByDesc(S, [p \in ProductIds |-> IF p \in S THEN db[p].rating ELSE 0],
                                   [p \in ProductIds |-> IF p \in S THEN db[p].sales_count ELSE 0]), limit)
    IN [i \in 1..Len(ids) |-> Rec(ids[i], db[ids[i]], db[ids[i]].rating, "Top rated in category")]

\* RecommendationService.get_new_arrivals
get_new_arrivals(db, limit, category_id) ==
    LET S == {p \in ActiveOf(db) :
                 Truthy(category_id) => db[p].category_id = category_id}
        ids == Take(OrderByDesc(S, [p \in ProductIds |-> IF p \in S THEN db[p].created_at ELSE 0],
                                   Zero), limit)
    IN [i \in 1..Len(ids) |-> Rec(ids[i], db[ids[i]], 1, "New arrival")]

\* Product.id JOIN order_items JOIN orders for one buyer, qualifying statuses:
\* one row per order item, in order-item order.
RECURSIVE PurchasedIds(_, _, _, _, _)
PurchasedIds(db, ords, items, user_id, statuses) ==
    IF items = <<>> THEN <<>>
    ELSE LET it == items[1]
             rest == PurchasedIds(db, ords, Tail(items), user_id, statuses)
         IN IF /\ db[it.product_id].exists
               /\ ords[it.order_id].buyer_id = user_id
               /\ ords[it.order_id].status \in statuses
            THEN <<it.product_id>> \o rest
            ELSE rest

RECURSIVE SimilarOfPurchasedReversed(_, _, _)
SimilarOfPurchasedReversed(svc, db, purchased_ids) ==
    IF purchased_ids = <<>> THEN <<>>
    ELSE SimilarOfPurchasedReversed(svc, db, Tail(purchased_ids))
         \o (IF HasEmbedding(svc, purchased_ids[1])
             THEN get_similar_products(svc, db, purchased_ids[1], SimilarPerPurchase)
             ELSE <<>>)

\* The loop extending similar_products over the purchased ids.
RECURSIVE SimilarOfPurchased(_, _, _)
SimilarOfPurchased(svc, db, purchased_ids) ==
    IF purchased_ids = <<>> THEN <<>>
    ELSE (IF HasEmbedding(svc, purchased_ids[1])
          THEN get_similar_products(svc, db, purchased_ids[1], SimilarPerPurchase)
          ELSE <<>>)
         \o SimilarOfPurchased(svc, db, Tail(purchased_ids))

RemovePurchasedOnly(recs, seen) ==
    SelectSeq(recs, LAMBDA r : r.product_id \notin seen)

\* The "seen" loop: keeps the first entry of each product id not in seen.
RECURSIVE Unique(_, _)
Unique(recs, seen) ==
    IF recs = <<>> THEN <<>>
    ELSE IF recs[1].product_id \notin seen
         THEN <<recs[1]>> \o Unique(Tail(recs), seen \cup {recs[1].product_id})
         ELSE Unique(Tail(recs), seen)

get_user_recommendations_fallback(svc, db, ords, items, user_id, limit) ==
    LET purchased_ids == PurchasedIds(db, ords, items, user_id, QualifyingStatuses)
        similar == SimilarOfPurchased(svc, db, purchased_ids)
    IN IF similar = <<>>
       THEN get_popular_products(db, limit)
       ELSE Take(Unique(similar, Range(purchased_ids)), limit)

\* RecommendationService.get_user_recommendations
get_user_recommendations(svc, db, ords, items, user_id, limit) ==
    LET purchased_ids == PurchasedIds(db, ords, items, user_id, QualifyingStatuses)
    IN IF purchased_ids = <<>>
       THEN get_popular_products(db, limit)
       ELSE Take(Unique(SimilarOfPurchased(svc, db, purchased_ids), Range(purchased_ids)),
                 limit)

JoinedRowStrict(ords, it, week_ago) ==
    /\ ords[it.order_id].created_at > week_ago
    /\ ords[it.order_id].status \in QualifyingStatuses

JoinedRowAnyStatus(ords, it, week_ago) == ords[it.order_id].created_at >= week_ago

\* The filter of the trending query on one order_items JOIN orders row.
JoinedRow(ords, it, week_ago) ==
    /\ ords[it.order_id].created_at >= week_ago
    /\ ords[it.order_id].status \in QualifyingStatuses

\* func.sum(OrderItem.quantity) of one product over the joined, filtered rows.
RECURSIVE RecentSales(_, _, _, _)
RecentSales(ords, items, p, week_ago) ==
    IF items = <<>> THEN 0
    ELSE (IF items[1].product_id = p /\ JoinedRow(ords, items[1], week_ago)
          THEN items[1].quantity ELSE 0)
         + RecentSales(ords, Tail(items), p, week_ago)

\* RecommendationService.get_trending_products
get_trending_products(db, ords, items, t, limit, category_id) ==
    LET week_ago == t - TrendingWindowDays
        S == {p \in ActiveOf(db) :
                 /\ Truthy(category_id) => db[p].category_id = category_id
                 /\ \E i \in 1..Len(items) :
                       items[i].product_id = p /\ JoinedRow(ords, items[i], week_ago)}
        sales == [p \in ProductIds |-> RecentSales(ords, items, p, week_ago)]
        ids == Take(OrderByDesc(S, sales, Zero), limit)
    IN [i \in 1..Len(ids) |-> Rec(ids[i], db[ids[i]], sales[ids[i]], "Trending product")]

PersonalizedPopularFirst(svc, db, ords, items, user_id, limit) ==
    LET user_recs == get_user_recommendations(svc, db, ords, items, user_id, limit \div 2)
        popular_recs == get_popular_products(db, limit \div 2)
    IN Take(Unique(popular_recs \o user_recs, {}), limit)

\* RecommendationService.get_personalized_recommendations
get_personalized_recommendations(svc, db, ords, items, user_id, limit) ==
    LET user_recs == get_user_recommendations(svc, db, ords, items, user_id, limit \div 2)
        popular_recs == get_popular_products(db, limit \div 2)
    IN Take(Unique(user_recs \o popular_recs, {}), limit)

----------------------------------------------------------------------------
(* Classification helpers: texts are sequences of one-character strings *)

UpperCase == <<"A", "B", "C", "D", "E", "F", "G", "H", "I", "J", "K", "L", "M", "N", "O", "P", "Q", "R", "S", "T", "U", "V", "W", "X", "Y", "Z">>
LowerCase == <<"a", "b", "c", "d", "e", "f", "g", "h", "i", "j", "k", "l", "m", "n", "o", "p", "q", "r", "s", "t", "u", "v", "w", "x", "y", "z">>
Digits == {"0", "1", "2", "3", "4", "5", "6", "7", "8", "9"}

\* str.lower on one character
LowerChar(c) == IF \E i \in 1..26 : UpperCase[i] = c
                THEN LowerCase[CHOOSE i \in 1..26 : UpperCase[i] = c]
                ELSE c

\* \w of the regular expression
IsWordChar(c) == c \in Range(UpperCase) \cup Range(LowerCase) \cup Digits \cup {"_"}

\* \s of the regular expression
IsSpace(c) == c \in {" ", "\t", "\n"}

\* re.sub(r'[^\w\s]', ' ', text.lower())
Clean(text) ==
    [i \in 1..Len(text) |->
        LET c == LowerChar(text[i])
        IN IF IsWordChar(c) \/ IsSpace(c) THEN c ELSE " "]

\* str.split(): the maximal runs of non-whitespace characters, in order.
RECURSIVE SplitFrom(_, _, _)
SplitFrom(text, i, word) ==
    IF i > Len(text) THEN (IF word = <<>> THEN <<>> ELSE <<word>>)
    ELSE IF IsSpace(text[i])
         THEN (IF word = <<>> THEN <<>> ELSE <<word>>) \o SplitFrom(text, i + 1, <<>>)
         ELSE SplitFrom(text, i + 1, Append(word, text[i]))

Split(text) == SplitFrom(text, 1, <<>>)

stop_words ==
    { <<"t", "h", "e">>, <<"a">>, <<"a", "n">>, <<"a", "n", "d">>, <<"o", "r">>,
      <<"b", "u", "t">>, <<"i", "n">>, <<"o", "n">>, <<"a", "t">>, <<"t", "o">>,
      <<"f", "o", "r">>, <<"o", "f">>, <<"w", "i", "t", "h">>, <<"b", "y">>,
      <<"i", "s">>, <<"a", "r", "e">>, <<"w", "a", "s">>, <<"w", "e", "r", "e">>,
      <<"b", "e">>, <<"b", "e", "e", "n">>, <<"b", "e", "i", "n", "g">>,
      <<"h", "a", "v", "e">>, <<"h", "a", "s">>, <<"h", "a", "d">>, <<"d", "o">>,
      <<"d", "o", "e", "s">>, <<"d", "i", "d">>, <<"w", "i", "l", "l">>,
      <<"w", "o", "u", "l", "d">>, <<"c", "o", "u", "l", "d">>,
      <<"s", "h", "o", "u", "l", "d">>, <<"m", "a", "y">>, <<"m", "i", "g", "h", "t">>,
      <<"m", "u", "s", "t">>, <<"c", "a", "n">>, <<"t", "h", "i", "s">>,
      <<"t", "h", "a", "t">>, <<"t", "h", "e", "s", "e">>, <<"t", "h", "o", "s", "e">>,
      <<"i">>, <<"y", "o", "u">>, <<"h", "e">>, <<"s", "h", "e">>, <<"i", "t">>,
      <<"w", "e">>, <<"t", "h", "e", "y">> }

IsKeywordLen2(word) == Len(word) >= MinKeywordLen /\ word \notin stop_words

\* The filter of the list comprehension: len(word) > 2 and word not in stop_words
IsKeyword(word) == Len(word) > MinKeywordLen /\ word \notin stop_words

\* The "seen" loop of _extract_keywords
RECURSIVE UniqueWords(_, _)
UniqueWords(words, seen) ==
    IF words = <<>> THEN <<>>
    ELSE IF words[1] \notin seen
         THEN <<words[1]>> \o UniqueWords(Tail(words), seen \cup {words[1]})
         ELSE UniqueWords(Tail(words), seen)

\* ClassificationService._extract_keywords
extract_keywords(text) ==
    UniqueWords(SelectSeq(Split(Clean(text)), IsKeyword), {})

\* Product.price IS NULL (the column is NOT NULL, so no stored row has it)
NullPrice == -2147483647

SuggestedMinWide(min_price, sum, n) == Max2(min_price * 10 * n, 8 * sum)

\* max(min_price, avg_price * 0.7), as a numerator over 10 * n
SuggestedMin(min_price, sum, n) == Max2(min_price * 10 * n, 7 * sum)

\* min(max_price, avg_price * 1.3), as a numerator over 10 * n
SuggestedMax(max_price, sum, n) == Min2(max_price * 10 * n, 13 * sum)

NoRange == [found |-> FALSE, min_price |-> 0, max_price |-> 0, average_price |-> 0,
            den |-> 1]

suggest_price_range_any_status(db, category_id) ==
    IF ~Truthy(category_id) THEN NoRange
    ELSE LET ids == IdList({p \in DOMAIN db :
                               /\ db[p].exists
                               /\ db[p].category_id = category_id
                               /\ db[p].price # NullPrice})
         IN IF ids = <<>> THEN NoRange
            ELSE LET prices == [i \in 1..Len(ids) |-> db[ids[i]].price]
                     n == Len(prices)
                     sum == SeqSum(prices)
                 IN [found |-> TRUE,
                     min_price |-> SuggestedMin(SeqMin(prices), sum, n),
                     max_price |-> SuggestedMax(SeqMax(prices), sum, n),
                     average_price |-> 10 * sum,
                     den |-> 10 * n]

\* ClassificationService._suggest_price_range. The amounts are exact fractions
\* of cents: each of min_price, max_price, average_price is a numerator over den.
suggest_price_range(db, category_id) ==
    IF ~Truthy(category_id) THEN NoRange
    ELSE LET ids == IdList({p \in DOMAIN db :
                               /\ db[p].exists
                               /\ db[p].category_id = category_id
                               /\ db[p].status = "active"
                               /\ db[p].price # NullPrice})
         IN IF ids = <<>> THEN NoRange
            ELSE LET prices == [i \in 1..Len(ids) |-> db[ids[i]].price]
                     n == Len(prices)
                     sum == SeqSum(prices)
                 IN [found |-> TRUE,
                     min_price |-> SuggestedMin(SeqMin(prices), sum, n),
                     max_price |-> SuggestedMax(SeqMax(prices), sum, n),
                     average_price |-> 10 * sum,
                     den |-> 10 * n]

----------------------------------------------------------------------------
(* Initial database *)

Row(title, tags, category_id, price, status, sales_count, rating, created_at) ==
    [exists |-> TRUE, title |-> title, description |-> None, tags |-> tags,
     images |-> <<>>, category_id |-> category_id, price |-> price,
     status |-> status, stock |-> 5, sales_count |-> sales_count,
     rating |-> rating, created_at |-> created_at]

InitProducts ==
    [p \in ProductIds |->
        CASE p = 1 -> Row("wallet", <<>>, 1, 2500, "active", 3, 450, 1)
          [] p = 2 -> Row("leather wallet", <<>>, 1, 4000, "active", 4, 470, 2)
          [] p = 3 -> Row("phone", <<"tech">>, 2, 30000, "active", 0, 400, 3)
          [] OTHER -> NoRow]

InitOrders ==
    << [buyer_id |-> 1, status |-> "paid", created_at |-> 7],
       [buyer_id |-> 1, status |-> "delivered", created_at |-> 0],
       [buyer_id |-> 2, status |-> "pending", created_at |-> 3] >>

InitOrderItems ==
    << [order_id |-> 1, product_id |-> 1, quantity |-> 2],
       [order_id |-> 2, product_id |-> 1, quantity |-> 1],
       [order_id |-> 2, product_id |-> 2, quantity |-> 3],
       [order_id |-> 3, product_id |-> 2, quantity |-> 1] >>

NoService == [product_embeddings |-> <<>>, index |-> NoIndex]

NoResp == [endpoint |-> "none", user_id |-> NoneInt, product_id |-> NoneInt,
           category_id |-> NoneInt, limit |-> 0, strategy |-> "none",
           built |-> FALSE, status |-> 0, result |-> <<>>]

NoKeywords == [called |-> FALSE, keywords |-> <<>>]

NoPriceOut == [called |-> FALSE, category_id |-> NoneInt, range |-> NoRange]

WorkerIds == 1..2

\* A server process that handles no request.
IdleWorker == [pc |-> "idle", product_id |-> NoneInt, limit |-> 0, svc |-> NoService,
               built |-> FALSE, status |-> 0, result |-> <<>>]

NoWorkers == [w \in WorkerIds |-> IdleWorker]

\* Neither classifier file exists.
NoModelFiles == [category |-> [exists |-> FALSE, classes |-> {}], tag |-> FALSE]

NoClassOut == [called |-> FALSE]

Init ==
    /\ products = InitProducts
    /\ next_product_id = 4
    /\ orders = InitOrders
    /\ order_items = InitOrderItems
    /\ now = 10
    /\ vector_file = NoFile
    /\ index_file = NoFile
    /\ service = NoService
    /\ resp = NoResp
    /\ env_steps = 0
    /\ text_in = <<>>
    /\ kw_out = NoKeywords
    /\ price_out = NoPriceOut
    /\ workers = NoWorkers
    /\ builds = {}
    /\ payments = <<>>
    /\ payouts = <<>>
    /\ model_files = NoModelFiles
    /\ class_out = NoClassOut

otherVars == <<workers, builds, model_files, class_out, payments, payouts>>
classVars == <<text_in, kw_out, price_out, workers, builds, model_files, class_out,
               payments, payouts>>
dbVars == <<products, next_product_id, orders, order_items, now, env_steps,
            payments, payouts>>
engineVars == <<vector_file, index_file, service, resp>>

----------------------------------------------------------------------------
(* Backend operations that change the catalog and the orders *)

Titles == {"case"}

\* products.py create_product: a new row with the column defaults.
CreateProduct(title, category_id, price) ==
    /\ resp = NoResp
    /\ env_steps < MaxEnvSteps
    /\ next_product_id <= MaxProductId
    /\ products' = [products EXCEPT ![next_product_id] =
                       [Row(title, <<>>, category_id, price, "draft", 0, 0, now)
                            EXCEPT !.stock = 0]]
    /\ next_product_id' = next_product_id + 1
    /\ env_steps' = env_steps + 1
    /\ UNCHANGED <<orders, order_items, now, engineVars, classVars>>

\* products.py update_product with {status: s}
UpdateProductStatus(p, s) ==
    /\ resp = NoResp
    /\ env_steps < MaxEnvSteps
    /\ products[p].exists
    /\ products[p].status # s
    /\ products' = [products EXCEPT ![p].status = s]
    /\ env_steps' = env_steps + 1
    /\ UNCHANGED <<next_product_id, orders, order_items, now, engineVars, classVars>>

\* products.py update_product with {title: t}
UpdateProductTitle(p, t) ==
    /\ resp = NoResp
    /\ env_steps < MaxEnvSteps
    /\ products[p].exists
    /\ products[p].title # t
    /\ products' = [products EXCEPT ![p].title = t]
    /\ env_steps' = env_steps + 1
    /\ UNCHANGED <<next_product_id, orders, order_items, now, engineVars, classVars>>

\* products.py delete_product: db.delete fails on a product that order items
\* reference (order_items.product_id is NOT NULL).
DeleteProduct(p) ==
    /\ resp = NoResp
    /\ env_steps < MaxEnvSteps
    /\ products[p].exists
    /\ \A i \in 1..Len(order_items) : order_items[i].product_id # p
    /\ products' = [products EXCEPT ![p] = NoRow]
    /\ env_steps' = env_steps + 1
    /\ UNCHANGED <<next_product_id, orders, order_items, now, engineVars, classVars>>

\* orders.py update_order_status with {status: s}
UpdateOrderStatus(o, s) ==
    /\ resp = NoResp
    /\ env_steps < MaxEnvSteps
    /\ o \in 1..Len(orders)
    /\ orders[o].status # s
    /\ orders' = [orders EXCEPT ![o].status = s]
    /\ env_steps' = env_steps + 1
    /\ UNCHANGED <<products, next_product_id, order_items, now, engineVars, classVars>>

\* The clock advances by one day.
Tick ==
    /\ resp = NoResp
    /\ now < MaxNow
    /\ now' = now + 1
    /\ UNCHANGED <<products, next_product_id, orders, order_items, env_steps,
                   engineVars, classVars>>

----------------------------------------------------------------------------
(* Recommendation endpoints: each request constructs a RecommendationService *)

\* recommendations.py get_product_recommendations: the strategy chosen.
SelectStrategy(user_id, product_id, category_id) ==
    IF Truthy(user_id) THEN "user"
    ELSE IF Truthy(product_id) THEN "similar"
    ELSE IF Truthy(category_id) THEN "category"
    ELSE "popular"

\* POST /products
GetProductRecommendations(user_id, product_id, category_id, limit) ==
    LET c == LoadOrCreateVectorDb(products, vector_file, index_file)
        strategy == SelectStrategy(user_id, product_id, category_id)
        result ==
            CASE strategy = "user" ->
                    get_user_recommendations(c.service, products, orders, order_items,
                                             user_id, limit)
              [] strategy = "similar" ->
                    get_similar_products(c.service, products, product_id, limit)
              [] strategy = "category" ->
                    get_category_recommendations(products, category_id, limit)
              [] OTHER -> get_popular_products(products, limit)
    IN /\ resp = NoResp
       /\ service' = c.service
       /\ vector_file' = c.vector_file
       /\ index_file' = c.index_file
       /\ resp' = [endpoint |-> "products", user_id |-> user_id,
                   product_id |-> product_id, category_id |-> category_id,
                   limit |-> limit, strategy |-> strategy, built |-> c.built,
                   status |-> IF c.raised THEN 500 ELSE 200,
                   result |-> IF c.raised THEN <<>> ELSE result]
       /\ UNCHANGED <<dbVars, classVars>>

\* GET /trending
GetTrendingProducts(limit, category_id) ==
    LET c == LoadOrCreateVectorDb(products, vector_file, index_file)
    IN /\ resp = NoResp
       /\ service' = c.service
       /\ vector_file' = c.vector_file
       /\ index_file' = c.index_file
       /\ resp' = [endpoint |-> "trending", user_id |-> NoneInt, product_id |-> NoneInt,
                   category_id |-> category_id, limit |-> limit,
                   strategy |-> "trending", built |-> c.built,
                   status |-> IF c.raised THEN 500 ELSE 200,
                   result |-> IF c.raised THEN <<>>
                              ELSE get_trending_products(products, orders, order_items,
                                                         now, limit, category_id)]
       /\ UNCHANGED <<dbVars, classVars>>

\* GET /new-arrivals
GetNewArrivals(limit, category_id) ==
    LET c == LoadOrCreateVectorDb(products, vector_file, index_file)
    IN /\ resp = NoResp
       /\ service' = c.service
       /\ vector_file' = c.vector_file
       /\ index_file' = c.index_file
       /\ resp' = [endpoint |-> "new-arrivals", user_id |-> NoneInt,
                   product_id |-> NoneInt, category_id |-> category_id,
                   limit |-> limit, strategy |-> "new", built |-> c.built,
                   status |-> IF c.raised THEN 500 ELSE 200,
                   result |-> IF c.raised THEN <<>>
                              ELSE get_new_arrivals(products, limit, category_id)]
       /\ UNCHANGED <<dbVars, classVars>>

\* POST /personalized
GetPersonalizedRecommendations(user_id, limit) ==
    LET c == LoadOrCreateVectorDb(products, vector_file, index_file)
    IN /\ resp = NoResp
       /\ service' = c.service
       /\ vector_file' = c.vector_file
       /\ index_file' = c.index_file
       /\ resp' = [endpoint |-> "personalized", user_id |-> user_id,
                   product_id |-> NoneInt, category_id |-> NoneInt, limit |-> limit,
                   strategy |-> "personalized", built |-> c.built,
                   status |-> IF c.raised THEN 500 ELSE 200,
                   result |-> IF c.raised THEN <<>>
                              ELSE get_personalized_recommendations(
                                       c.service, products, orders, order_items, user_id,
                                       limit)]
       /\ UNCHANGED <<dbVars, classVars>>

\* The response has been sent; the service instance of the request is dropped.
Return ==
    /\ resp # NoResp
    /\ resp' = NoResp
    /\ service' = NoService
    /\ UNCHANGED <<dbVars, vector_file, index_file, classVars>>

ReqUserIds == {NoneInt, 1, 2}
ReqProductIds == {NoneInt, 0, 1}
ReqCategoryIds == {NoneInt, 1}
Limits == 0..MaxLimit

Next ==
    \/ \E c \in CategoryIds : CreateProduct("purse", c, 1000)
    \/ \E p \in ProductIds, s \in {"active", "inactive"} : UpdateProductStatus(p, s)
    \/ \E p \in ProductIds, t \in Titles : UpdateProductTitle(p, t)
    \/ \E p \in ProductIds : DeleteProduct(p)
    \/ \E o \in 1..Len(orders), s \in {"paid", "cancelled"} : UpdateOrderStatus(o, s)
    \/ Tick
    \/ \E u \in ReqUserIds, p \in ReqProductIds, c \in ReqCategoryIds, l \in Limits :
          GetProductRecommendations(u, p, c, l)
    \/ \E l \in Limits, c \in ReqCategoryIds : GetTrendingProducts(l, c)
    \/ \E l \in Limits, c \in ReqCategoryIds : GetNewArrivals(l, c)
    \/ \E u \in UserIds, l \in Limits : GetPersonalizedRecommendations(u, l)
    \/ Return

Spec == Init /\ [][Next]_vars

----------------------------------------------------------------------------
(* Keyword extraction on enumerated texts *)

Sentence == <<"R", "e", "d", " ", "L", "e", "a", "t", "h", "e", "r", " ", "W", "a", "l", "l", "e", "t", " ", "f", "o", "r", " ", "M", "e", "n">>

\* Words and separators the enumerated texts are made of.
Pieces == { <<"R", "e", "d">>, <<"r", "e", "d">>, <<"f", "o", "r">>, <<"M", "e", "n">>,
            <<"o", "f">>, <<"x", "_", "1">>, <<" ">>, <<"-">>, <<",">>,
            <<"c", "a", "n", "s">>, <<"X", "L">> }

RECURSIVE Concat(_)
Concat(ps) == IF ps = <<>> THEN <<>> ELSE ps[1] \o Concat(Tail(ps))

Texts == {Sentence} \cup
         {Concat(ps) : ps \in UNION {[1..n -> Pieces] : n \in 0..MaxTextLen}}

InitKeywords ==
    /\ products = InitProducts
    /\ next_product_id = 4
    /\ orders = InitOrders
    /\ order_items = InitOrderItems
    /\ now = 10
    /\ vector_file = NoFile
    /\ index_file = NoFile
    /\ service = NoService
    /\ resp = NoResp
    /\ env_steps = 0
    /\ text_in \in Texts
    /\ kw_out = NoKeywords
    /\ price_out = NoPriceOut
    /\ workers = NoWorkers
    /\ builds = {}
    /\ payments = <<>>
    /\ payouts = <<>>
    /\ model_files = NoModelFiles
    /\ class_out = NoClassOut

\* A call of _extract_keywords(text_in)
ExtractKeywords ==
    /\ ~kw_out.called
    /\ kw_out' = [called |-> TRUE, keywords |-> extract_keywords(text_in)]
    /\ UNCHANGED <<dbVars, engineVars, text_in, price_out, otherVars>>

NextKeywords == ExtractKeywords

SpecKeywords == InitKeywords /\ [][NextKeywords]_vars

----------------------------------------------------------------------------
(* Price range estimation on enumerated categories *)

PriceChoices == {-1000, 5, 1000, 3000}

ScenarioPrices == <<1000, 2000, 3000, 4000, 5000>>

\* Category 1 holds the active products priced `prices`, and one inactive
\* product; category 2 holds one active product.
PriceCatalog(prices) ==
    LET n == Len(prices)
    IN [p \in 1..(n + 2) |->
           IF p <= n THEN Row("wallet", <<>>, 1, prices[p], "active", 0, 0, 0)
           ELSE IF p = n + 1 THEN Row("purse", <<>>, 1, 90000, "inactive", 0, 0, 0)
           ELSE Row("phone", <<>>, 2, 700, "active", 0, 0, 0)]

PriceLists == {ScenarioPrices} \cup UNION {[1..n -> PriceChoices] : n \in 0..MaxPrices}

InitPrice ==
    /\ \E prices \in PriceLists : products = PriceCatalog(prices)
    /\ next_product_id = 1
    /\ orders = <<>>
    /\ order_items = <<>>
    /\ now = 10
    /\ vector_file = NoFile
    /\ index_file = NoFile
    /\ service = NoService
    /\ resp = NoResp
    /\ env_steps = 0
    /\ text_in = <<>>
    /\ kw_out = NoKeywords
    /\ price_out = NoPriceOut
    /\ workers = NoWorkers
    /\ builds = {}
    /\ payments = <<>>
    /\ payouts = <<>>
    /\ model_files = NoModelFiles
    /\ class_out = NoClassOut

\* A call of _suggest_price_range(title, description, category_id)
SuggestPriceRange(category_id) ==
    /\ ~price_out.called
    /\ price_out' = [called |-> TRUE, category_id |-> category_id,
                     range |-> suggest_price_range(products, category_id)]
    /\ UNCHANGED <<dbVars, engineVars, text_in, kw_out, otherVars>>

NextPrice == \E c \in {NoneInt, 0, 1, 2, 3} : SuggestPriceRange(c)

SpecPrice == InitPrice /\ [][NextPrice]_vars

----------------------------------------------------------------------------
(* Classification service: classifier files, classify_product, tags.       *)
(* Tags and keywords are sequences of one-character strings.               *)

CategoryTagLimit == 10      \* tag_counter.most_common(10)
CategorySampleLimit == 100  \* .limit(100)
TopTagLimit == 10           \* sorted_tags[:10]
DefaultCategoryId == 1      \* predicted_category_id or 1

\* Table categories: id -> name
CategoryNames == [c \in {1, 2} |-> IF c = 1 THEN "Accessories" ELSE "Electronics"]

\* Number of occurrences of t in seq
RECURSIVE CountOf(_, _)
CountOf(seq, t) == IF seq = <<>> THEN 0
                   ELSE (IF seq[1] = t THEN 1 ELSE 0) + CountOf(Tail(seq), t)

\* sorted(..., key=count, reverse=True) on the distinct values in the order of
\* their first occurrence: the sort is stable.
RECURSIVE SortByCount(_, _, _)
SortByCount(d, seq, S) ==
    IF S = {} THEN <<>>
    ELSE LET b == CHOOSE i \in S : \A j \in S :
                     \/ CountOf(seq, d[i]) > CountOf(seq, d[j])
                     \/ CountOf(seq, d[i]) = CountOf(seq, d[j]) /\ i <= j
         IN <<d[b]>> \o SortByCount(d, seq, S \ {b})

MostCommonUnsorted(seq, n) == Take(UniqueWords(seq, {}), n)

\* Counter(seq).most_common(n); also sorted(tag_scores.items(), key=count,
\* reverse=True)[:n] of generate_tags, which counts in the same way.
MostCommon(seq, n) ==
    LET d == UniqueWords(seq, {})
    IN Take(SortByCount(d, seq, 1..Len(d)), n)

RECURSIVE FlattenTags(_, _)
FlattenTags(db, ids) == IF ids = <<>> THEN <<>>
                        ELSE db[ids[1]].tags \o FlattenTags(db, Tail(ids))

\* ClassificationService._get_category_tags
get_category_tags(db, category_id) ==
    LET ids == Take(IdList({p \in DOMAIN db : db[p].exists
                                               /\ db[p].category_id = category_id}),
                    CategorySampleLimit)
    IN MostCommon(FlattenTags(db, ids), CategoryTagLimit)

\* ClassificationService.generate_tags: confidence_scores is the dict of the
\* returned tags, a function from tag to count.
generate_tags(db, text, category_id) ==
    LET keywords == extract_keywords(text)
        category_tags == IF Truthy(category_id) THEN get_category_tags(db, category_id)
                         ELSE <<>>
        all_tags == keywords \o category_tags
        top_tags == MostCommon(all_tags, TopTagLimit)
    IN [tags |-> top_tags,
        confidence_scores |-> [t \in Range(top_tags) |-> CountOf(all_tags, t)]]

NoClassifier == [present |-> FALSE, classes |-> {}]

TrainingRowsAnyStatus(db) == {p \in DOMAIN db : db[p].exists}

\* _build_classification_models: the products queried for training.
\* category_id is a non-null column, so the second filter keeps every row.
TrainingRows(db) == {p \in DOMAIN db : db[p].exists /\ db[p].status = "active"}

\* _build_classification_models and _save_classification_models: the
\* classifiers and the files after the build. The category classifier is
\* fitted on the category ids of the active products; the tag classifier
\* exists when an active product has tags.
\* built: the build was entered; trained_on: the products whose (text,
\* category) pairs were fitted; tags_from: the products whose tags were used.
BuildClassificationModels(db, clf, tag, files) ==
    LET rows == TrainingRows(db)
    IN IF rows = {} THEN [category_classifier |-> clf, tag_classifier |-> tag,
                          files |-> files, built |-> TRUE, trained_on |-> {},
                          tags_from |-> {}]
       ELSE LET fitted == [present |-> TRUE,
                           classes |-> {db[p].category_id : p \in rows}]
                tags_list == {p \in rows : db[p].tags # <<>>}
                tagged == tags_list # {}
            IN [category_classifier |-> fitted,
                tag_classifier |-> tagged \/ tag,
                files |-> [category |-> [exists |-> TRUE, classes |-> fitted.classes],
                           tag |-> tagged \/ tag \/ files.tag],
                built |-> TRUE, trained_on |-> rows, tags_from |-> tags_list]

LoadClassificationModelsCategoryOnly(db, files) ==
    IF ~files.category.exists
    THEN BuildClassificationModels(db, NoClassifier, files.tag, files)
    ELSE [category_classifier |-> [present |-> TRUE, classes |-> files.category.classes],
          tag_classifier |-> files.tag, files |-> files,
          built |-> FALSE, trained_on |-> {}, tags_from |-> {}]

LoadClassificationModelsAlwaysBuilds(db, files) ==
    BuildClassificationModels(db, [present |-> files.category.exists,
                                   classes |-> files.category.classes],
                              files.tag, files)

\* _load_classification_models (called by __init__)
LoadClassificationModels(db, files) ==
    LET clf == IF files.category.exists
               THEN [present |-> TRUE, classes |-> files.category.classes]
               ELSE NoClassifier
    IN IF ~clf.present \/ ~files.tag
       THEN BuildClassificationModels(db, clf, files.tag, files)
       ELSE [category_classifier |-> clf, tag_classifier |-> TRUE, files |-> files,
             built |-> FALSE, trained_on |-> {}, tags_from |-> {}]

\* Outcome of a call on the fitted pipeline: it raises, or returns a value.
Raises == [raised |-> TRUE, value |-> NoneInt]
Returns(v) == [raised |-> FALSE, value |-> v]

\* ClassificationService.classify_product. predict and proba are the outcomes
\* of category_classifier.predict and of predict_proba(...).max(); the second
\* call is made only when the first returned. Confidence is in hundredths.
classify_product(db, clf, title, predict, proba) ==
    LET predicted == IF clf.present /\ ~predict.raised THEN predict.value ELSE NoneInt
        confidence == IF clf.present /\ ~predict.raised /\ ~proba.raised
                      THEN proba.value ELSE 0
        category_name == IF Truthy(predicted) /\ predicted \in DOMAIN CategoryNames
                         THEN CategoryNames[predicted] ELSE "Unknown"
    IN [category_id |-> IF Truthy(predicted) THEN predicted ELSE DefaultCategoryId,
        category_name |-> category_name,
        confidence |-> confidence,
        suggested_tags |-> generate_tags(db, title, predicted).tags,
        suggested_price_range |-> suggest_price_range(db, predicted)]

----------------------------------------------------------------------------
(* The classification endpoints on enumerated catalogs and classifier files *)

TagRed == <<"r", "e", "d">>
TagMen == <<"m", "e", "n">>
TagCans == <<"c", "a", "n", "s">>

\* Four products in two categories; st gives the status of each.
ClassifyCatalog(st) ==
    [p \in ProductIds |->
        CASE p = 1 -> Row("wallet", <<TagRed, TagMen>>, 1, 1000, st[1], 0, 0, 1)
          [] p = 2 -> Row("wallet", <<TagCans, TagCans>>, 1, 3000, st[2], 0, 0, 1)
          [] p = 3 -> Row("phone", <<TagRed>>, 2, 5000, st[3], 0, 0, 1)
          [] p = 4 -> Row("phone", <<>>, 2, NullPrice, st[4], 0, 0, 1)
          [] OTHER -> NoRow]

ClassifyStatuses == [1..4 -> {"active", "draft"}]

\* data/vector_db before the request: no classifier file, both files written
\* when both categories had active products, or a category file written
\* when category 3 still existed, with no tag file.
ModelFileStates ==
    {NoModelFiles,
     [category |-> [exists |-> TRUE, classes |-> {1, 2}], tag |-> TRUE],
     [category |-> [exists |-> TRUE, classes |-> {2, 3}], tag |-> TRUE],
     [category |-> [exists |-> TRUE, classes |-> {2, 3}], tag |-> FALSE]}

RequestTitles == {<<"R", "e", "d">>,
                  <<"c", "a", "n", "s", " ", "m", "e", "n">>,
                  <<"M", "e", "n", " ", "r", "e", "d">>,
                  <<"a", "n">>}

Confidences == {60, 100}

InitClassify ==
    /\ \E st \in ClassifyStatuses : products = ClassifyCatalog(st)
    /\ next_product_id = 5
    /\ orders = <<>>
    /\ order_items = <<>>
    /\ now = 10
    /\ vector_file = NoFile
    /\ index_file = NoFile
    /\ service = NoService
    /\ resp = NoResp
    /\ env_steps = 0
    /\ text_in = <<>>
    /\ kw_out = NoKeywords
    /\ price_out = NoPriceOut
    /\ workers = NoWorkers
    /\ builds = {}
    /\ payments = <<>>
    /\ payouts = <<>>
    /\ model_files \in ModelFileStates
    /\ class_out = NoClassOut

\* POST /classification/product: the service is constructed (classifiers
\* loaded or built and saved), then classify_product runs.
ClassifyProduct(title, predict, proba) ==
    /\ ~class_out.called
    /\ LET m == LoadClassificationModels(products, model_files)
           clf == m.category_classifier
           predicted == IF clf.present /\ ~predict.raised THEN predict.value
                        ELSE NoneInt
       IN /\ predict.raised \/ predict.value \in clf.classes
          /\ model_files' = m.files
          /\ class_out' = [called |-> TRUE, op |-> "classify", status |-> 200,
                           classifier |-> clf, predict |-> predict, proba |-> proba,
                           predicted |-> predicted,
                           result |-> classify_product(products, clf, title,
                                                       predict, proba)]
    /\ UNCHANGED <<dbVars, engineVars, text_in, kw_out, price_out, workers, builds>>

\* POST /classification/auto-tag
AutoTagProduct(title, category_id) ==
    /\ ~class_out.called
    /\ LET m == LoadClassificationModels(products, model_files)
       IN /\ model_files' = m.files
          /\ class_out' = [called |-> TRUE, op |-> "auto-tag", status |-> 200,
                           category_id |-> category_id,
                           keywords |-> extract_keywords(title),
                           category_tags |-> IF Truthy(category_id)
                                             THEN get_category_tags(products, category_id)
                                             ELSE <<>>,
                           result |-> generate_tags(products, title, category_id)]
    /\ UNCHANGED <<dbVars, engineVars, text_in, kw_out, price_out, workers, builds>>

\* The response has been sent.
ReturnClassify ==
    /\ class_out.called
    /\ class_out' = NoClassOut
    /\ UNCHANGED <<dbVars, engineVars, text_in, kw_out, price_out, workers, builds,
                   model_files>>

NextClassify ==
    \/ \E p \in 1..4, st \in {"active", "inactive"} :
           ~class_out.called /\ UpdateProductStatus(p, st)
    \/ \E title \in RequestTitles, c \in {1, 2, 3}, conf \in Confidences :
           \E predict \in {Raises, Returns(c)}, proba \in {Raises, Returns(conf)} :
               ClassifyProduct(title, predict, proba)
    \/ \E title \in RequestTitles, c \in {NoneInt, 1, 2} : AutoTagProduct(title, c)
    \/ ReturnClassify

SpecClassify == InitClassify /\ [][NextClassify]_vars

----------------------------------------------------------------------------
(* The recommendation endpoints on enumerated catalogs, purchase histories  *)
(* and artifact files                                                       *)

\* The four products, each active or inactive as `active` tells.
CatalogOf(active) ==
    [p \in ProductIds |->
        CASE p = 1 -> Row("wallet", <<>>, 1, 2500,
                          IF 1 \in active THEN "active" ELSE "inactive", 3, 450, 1)
          [] p = 2 -> Row("leather wallet", <<>>, 1, 4000,
                          IF 2 \in active THEN "active" ELSE "inactive", 4, 470, 2)
          [] p = 3 -> Row("phone", <<"tech">>, 2, 30000,
                          IF 3 \in active THEN "active" ELSE "inactive", 0, 400, 3)
          [] p = 4 -> Row("purse", <<>>, 1, 1000,
                          IF 4 \in active THEN "active" ELSE "inactive", 5, 300, 4)
          [] OTHER -> NoRow]

ActiveSets == {{}, {3}, {1, 2, 3}, {1, 3, 4}, {2, 3, 4}, {1, 2, 3, 4}}

\* Orders and order items: buyer 1 bought products 1 and 3 (or 3 and 1, or 1
\* twice and 2), buyer 2 has a shipped or a pending order.
Histories ==
    { [orders |-> InitOrders, items |-> InitOrderItems],
      [orders |-> << [buyer_id |-> 1, status |-> "paid", created_at |-> 7],
                     [buyer_id |-> 2, status |-> "shipped", created_at |-> 5] >>,
       items |-> << [order_id |-> 1, product_id |-> 1, quantity |-> 1],
                    [order_id |-> 1, product_id |-> 3, quantity |-> 1],
                    [order_id |-> 2, product_id |-> 2, quantity |-> 2] >>],
      [orders |-> << [buyer_id |-> 1, status |-> "processing", created_at |-> 7],
                     [buyer_id |-> 1, status |-> "delivered", created_at |-> 8] >>,
       items |-> << [order_id |-> 1, product_id |-> 3, quantity |-> 1],
                    [order_id |-> 2, product_id |-> 1, quantity |-> 1] >>] }

\* The artifact files an earlier build of the four active products saved.
SavedFiles == BuildVectorDb(CatalogOf({1, 2, 3, 4}), NoFile, NoFile)

\* A file cut short: what a write that did not complete leaves behind.
Truncated(file) == [exists |-> TRUE, bytes |-> SubSeq(file.bytes, 1, Len(file.bytes) - 1)]

\* The states of VECTOR_DB_PATH: empty, both files as saved, one file cut
\* short, the index file missing.
FileStates ==
    { [vector_file |-> NoFile, index_file |-> NoFile],
      [vector_file |-> SavedFiles.vector_file, index_file |-> SavedFiles.index_file],
      [vector_file |-> Truncated(SavedFiles.vector_file),
       index_file |-> SavedFiles.index_file],
      [vector_file |-> SavedFiles.vector_file,
       index_file |-> Truncated(SavedFiles.index_file)],
      [vector_file |-> SavedFiles.vector_file, index_file |-> NoFile] }

InitCatalog ==
    /\ \E a \in ActiveSets : products = CatalogOf(a)
    /\ next_product_id = 5
    /\ \E h \in Histories : orders = h.orders /\ order_items = h.items
    /\ now = 10
    /\ \E f \in FileStates : vector_file = f.vector_file /\ index_file = f.index_file
    /\ service = NoService
    /\ resp = NoResp
    /\ env_steps = 0
    /\ text_in = <<>>
    /\ kw_out = NoKeywords
    /\ price_out = NoPriceOut
    /\ workers = NoWorkers
    /\ builds = {}
    /\ payments = <<>>
    /\ payouts = <<>>
    /\ model_files = NoModelFiles
    /\ class_out = NoClassOut

PersonalizedLimits == {0, 1, 2 * MaxLimit, 2 * MaxLimit + 1}

NextCatalog ==
    \/ \E p \in ProductIds : DeleteProduct(p)
    \/ \E u \in {NoneInt, 1, 2}, p \in {NoneInt, 1, 3}, l \in Limits :
          GetProductRecommendations(u, p, NoneInt, l)
    \/ \E u \in UserIds, l \in PersonalizedLimits : GetPersonalizedRecommendations(u, l)
    \/ Return

SpecCatalog == InitCatalog /\ [][NextCatalog]_vars

----------------------------------------------------------------------------
(* Requests handled by several server processes that share VECTOR_DB_PATH: *)
(* the constructor and the query of a similar-items request, one file      *)
(* operation at a time                                                     *)

workerVars == <<products, next_product_id, orders, order_items, now, env_steps,
                service, resp, text_in, kw_out, price_out, model_files, class_out,
                payments, payouts>>

\* The request arrives; __init__ tests whether both files exist (line 34).
StartRequest(w, product_id, limit) ==
    /\ workers[w].pc = "idle"
    /\ workers' = [workers EXCEPT ![w] =
                      [IdleWorker EXCEPT !.product_id = product_id, !.limit = limit,
                                         !.pc = IF vector_file.exists /\ index_file.exists
                                                THEN "load_vec" ELSE "query"]]
    /\ UNCHANGED <<vector_file, index_file, builds, workerVars>>

\* pickle.load of product_embeddings.pkl (lines 36-37)
LoadVec(w) ==
    /\ workers[w].pc = "load_vec"
    /\ workers' = [workers EXCEPT ![w] =
                      IF PickleReadable(vector_file.bytes)
                      THEN [@ EXCEPT !.pc = "load_idx",
                                     !.svc.product_embeddings = PickleLoad(vector_file.bytes)]
                      ELSE [@ EXCEPT !.pc = "done", !.status = 500]]
    /\ UNCHANGED <<vector_file, index_file, builds, workerVars>>

\* faiss.read_index of product_index.faiss (line 39)
LoadIdx(w) ==
    /\ workers[w].pc = "load_idx"
    /\ workers' = [workers EXCEPT ![w] =
                      IF IndexReadable(index_file.bytes)
                      THEN [@ EXCEPT !.pc = "serve", !.svc.index = ReadIndex(index_file.bytes)]
                      ELSE [@ EXCEPT !.pc = "done", !.status = 500]]
    /\ UNCHANGED <<vector_file, index_file, builds, workerVars>>

\* _build_vector_db up to the save: the query of the active products, the
\* embeddings, the index and the map in memory (lines 49-85).
QueryCatalog(w) ==
    /\ workers[w].pc = "query"
    /\ LET b == BuildVectorDb(products, NoFile, NoFile)
       IN /\ workers' = [workers EXCEPT ![w] =
                            [@ EXCEPT !.svc = b.service, !.built = TRUE,
                                      !.pc = IF b.service.index.present
                                             THEN "open_vec" ELSE "serve"]]
          /\ builds' = IF b.service.index.present THEN builds
                       ELSE builds \cup {b.service}
    /\ UNCHANGED <<vector_file, index_file, workerVars>>

\* open(vector_file, 'wb') creates or empties the file (line 95).
OpenVec(w) ==
    /\ workers[w].pc = "open_vec"
    /\ vector_file' = [exists |-> TRUE, bytes |-> <<>>]
    /\ workers' = [workers EXCEPT ![w].pc = "dump_vec"]
    /\ UNCHANGED <<index_file, builds, workerVars>>

\* pickle.dump and the close of the file (line 96)
DumpVec(w) ==
    /\ workers[w].pc = "dump_vec"
    /\ vector_file' = [exists |-> TRUE,
                       bytes |-> PickleDump(workers[w].svc.product_embeddings)]
    /\ workers' = [workers EXCEPT ![w].pc = "open_idx"]
    /\ UNCHANGED <<index_file, builds, workerVars>>

\* faiss.write_index creates or empties the file (line 99).
OpenIdx(w) ==
    /\ workers[w].pc = "open_idx"
    /\ index_file' = [exists |-> TRUE, bytes |-> <<>>]
    /\ workers' = [workers EXCEPT ![w].pc = "write_idx"]
    /\ UNCHANGED <<vector_file, builds, workerVars>>

\* faiss.write_index writes the index and closes the file (line 99); the build
\* is complete.
WriteIdx(w) ==
    /\ workers[w].pc = "write_idx"
    /\ index_file' = [exists |-> TRUE, bytes |-> WriteIndex(workers[w].svc.index)]
    /\ workers' = [workers EXCEPT ![w].pc = "serve"]
    /\ builds' = builds \cup {workers[w].svc}
    /\ UNCHANGED <<vector_file, workerVars>>

\* get_similar_products on the service the constructor returned
Serve(w) ==
    /\ workers[w].pc = "serve"
    /\ workers' = [workers EXCEPT ![w] =
                      [@ EXCEPT !.pc = "done", !.status = 200,
                                !.result = get_similar_products(
                                               workers[w].svc, products,
                                               workers[w].product_id, workers[w].limit)]]
    /\ UNCHANGED <<vector_file, index_file, builds, workerVars>>

\* The response is sent.
Finish(w) ==
    /\ workers[w].pc = "done"
    /\ workers' = [workers EXCEPT ![w] = IdleWorker]
    /\ UNCHANGED <<vector_file, index_file, builds, workerVars>>

InitWorkers ==
    /\ products = InitProducts
    /\ next_product_id = 4
    /\ orders = InitOrders
    /\ order_items = InitOrderItems
    /\ now = 10
    /\ vector_file = NoFile
    /\ index_file = NoFile
    /\ service = NoService
    /\ resp = NoResp
    /\ env_steps = 0
    /\ text_in = <<>>
    /\ kw_out = NoKeywords
    /\ price_out = NoPriceOut
    /\ workers = NoWorkers
    /\ builds = {}
    /\ payments = <<>>
    /\ payouts = <<>>
    /\ model_files = NoModelFiles
    /\ class_out = NoClassOut

NextWorkers ==
    \/ \E p \in {2, 3} : UpdateProductStatus(p, "inactive")
    \/ \E w \in WorkerIds, p \in {1, 2} : StartRequest(w, p, MaxLimit)
    \/ \E w \in WorkerIds : LoadVec(w)
    \/ \E w \in WorkerIds : LoadIdx(w)
    \/ \E w \in WorkerIds : QueryCatalog(w)
    \/ \E w \in WorkerIds : OpenVec(w)
    \/ \E w \in WorkerIds : DumpVec(w)
    \/ \E w \in WorkerIds : OpenIdx(w)
    \/ \E w \in WorkerIds : WriteIdx(w)
    \/ \E w \in WorkerIds : Serve(w)
    \/ \E w \in WorkerIds : Finish(w)

SpecWorkers == InitWorkers /\ [][NextWorkers]_vars

----------------------------------------------------------------------------
(* Construction of both services on catalogs with products of every status *)

\* The four products of CatalogOf with the statuses st.
StartupCatalog(st) ==
    [p \in ProductIds |->
        IF p \in 1..4 THEN [CatalogOf({})[p] EXCEPT !.status = st[p]] ELSE NoRow]

StartupStatuses ==
    {st \in [1..4 -> {"active", "draft", "archived", "inactive"}] :
        /\ st[1] \in {"active", "draft"}
        /\ st[2] \in {"active", "archived"}
        /\ st[3] \in {"active", "draft"}
        /\ st[4] = "inactive"}

\* data/vector_db before the first request: no vector artifact, both, or the
\* embedding map without the index.
StartupFiles ==
    { [vector_file |-> NoFile, index_file |-> NoFile],
      [vector_file |-> SavedFiles.vector_file, index_file |-> SavedFiles.index_file],
      [vector_file |-> SavedFiles.vector_file, index_file |-> NoFile] }

InitStartup ==
    /\ \E st \in StartupStatuses : products = StartupCatalog(st)
    /\ next_product_id = 5
    /\ orders = <<>>
    /\ order_items = <<>>
    /\ now = 10
    /\ \E f \in StartupFiles : vector_file = f.vector_file /\ index_file = f.index_file
    /\ service = NoService
    /\ resp = NoResp
    /\ env_steps = 0
    /\ text_in = <<>>
    /\ kw_out = NoKeywords
    /\ price_out = NoPriceOut
    /\ workers = NoWorkers
    /\ builds = {}
    /\ payments = <<>>
    /\ payouts = <<>>
    /\ model_files = NoModelFiles
    /\ class_out = NoClassOut

\* POST /classification/bulk-classify with an empty list: the service is
\* constructed and no product is classified.
BulkClassify ==
    /\ resp = NoResp
    /\ ~class_out.called
    /\ LET m == LoadClassificationModels(products, model_files)
       IN /\ model_files' = m.files
          /\ class_out' = [called |-> TRUE, op |-> "bulk-classify", status |-> 200,
                           loaded_category |-> model_files.category.exists,
                           built |-> m.built, trained_on |-> m.trained_on,
                           tags_from |-> m.tags_from,
                           classifier |-> m.category_classifier,
                           tag_classifier |-> m.tag_classifier,
                           result |-> <<>>]
    /\ UNCHANGED <<dbVars, engineVars, text_in, kw_out, price_out, workers, builds>>

NextStartup ==
    \/ \E p \in 1..4, st \in {"active", "inactive"} :
           ~class_out.called /\ UpdateProductStatus(p, st)
    \/ \E p \in 1..4 : ~class_out.called /\ DeleteProduct(p)
    \/ \E p \in {1, 3} :
           ~class_out.called /\ GetProductRecommendations(NoneInt, p, NoneInt, MaxLimit)
    \/ Return
    \/ BulkClassify
    \/ ReturnClassify

SpecStartup == InitStartup /\ [][NextStartup]_vars

----------------------------------------------------------------------------
(* Backend: checkout, cancellation, payments and seller payouts            *)

MaxOrders == 2       \* at most MaxOrders checkouts
MaxPayments == 2     \* at most MaxPayments payment records
MaxPayouts == 3      \* payment success events are handled while the
                     \* seller_payouts table has fewer than MaxPayouts rows
InitialStock == 2    \* stock of each product before any order

\* Two active products with InitialStock units each.
OrderCatalog ==
    [p \in ProductIds |->
        CASE p = 1 -> [Row("wallet", <<>>, 1, 2500, "active", 0, 450, 1)
                          EXCEPT !.stock = InitialStock]
          [] p = 2 -> [Row("phone", <<>>, 2, 30000, "active", 0, 400, 2)
                          EXCEPT !.stock = InitialStock]
          [] OTHER -> NoRow]

\* Contents of a cart: cart_items rows (product_id, quantity).
Carts ==
    { << [product_id |-> 1, quantity |-> 1] >>,
      << [product_id |-> 1, quantity |-> 2] >>,
      << [product_id |-> 1, quantity |-> 1], [product_id |-> 2, quantity |-> 2] >> }

\* create_order, the loop over the cart: the stock check of each item is made
\* on the stock left by the items before it.
RECURSIVE CheckoutLoop(_, _, _)
CheckoutLoop(db, cart, order_id) ==
    IF cart = <<>> THEN [ok |-> TRUE, db |-> db, items |-> <<>>]
    ELSE LET it == cart[1]
         IN IF ~db[it.product_id].exists \/ db[it.product_id].stock < it.quantity
            THEN [ok |-> FALSE, db |-> db, items |-> <<>>]
            ELSE LET db2 == [db EXCEPT
                               ![it.product_id].stock = @ - it.quantity,
                               ![it.product_id].sales_count = @ + it.quantity]
                     rest == CheckoutLoop(db2, Tail(cart), order_id)
                 IN [ok |-> rest.ok, db |-> rest.db,
                     items |-> <<[order_id |-> order_id, product_id |-> it.product_id,
                                  quantity |-> it.quantity]>> \o rest.items]

\* POST /orders/checkout. A ValidationError leaves the transaction
\* uncommitted: nothing changes.
CreateOrder(user, cart) ==
    /\ resp = NoResp
    /\ Len(orders) < MaxOrders
    /\ LET c == CheckoutLoop(products, cart, Len(orders) + 1)
       IN /\ c.ok
          /\ orders' = Append(orders, [buyer_id |-> user, status |-> "pending",
                                       created_at |-> now])
          /\ order_items' = order_items \o c.items
          /\ products' = c.db
    /\ UNCHANGED <<next_product_id, now, env_steps, payments, payouts, engineVars,
                   text_in, kw_out, price_out, workers, builds, model_files, class_out>>

\* cancel_order, the loop restoring the stock of the items of order o.
RECURSIVE RestoreStock(_, _, _)
RestoreStock(db, items, o) ==
    IF items = <<>> THEN db
    ELSE LET it == items[1]
             db2 == IF it.order_id = o /\ db[it.product_id].exists
                    THEN [db EXCEPT ![it.product_id].stock = @ + it.quantity,
                                    ![it.product_id].sales_count = @ - it.quantity]
                    ELSE db
         IN RestoreStock(db2, Tail(items), o)

\* POST /orders/{order_id}/cancel
CancelOrder(user, o) ==
    /\ resp = NoResp
    /\ o \in 1..Len(orders)
    /\ orders[o].buyer_id = user
    /\ orders[o].status \in {"pending", "paid"}
    /\ orders' = [orders EXCEPT ![o].status = "cancelled"]
    /\ products' = RestoreStock(products, order_items, o)
    /\ UNCHANGED <<next_product_id, order_items, now, env_steps, payments, payouts,
                   engineVars, text_in, kw_out, price_out, workers, builds,
                   model_files, class_out>>

\* POST /payments/stripe/create-payment-intent and /payments/paypal/create-order:
\* a payment record in status processing for a pending order of the user.
CreatePayment(user, o, gateway) ==
    /\ resp = NoResp
    /\ Len(payments) < MaxPayments
    /\ o \in 1..Len(orders)
    /\ orders[o].buyer_id = user
    /\ orders[o].status = "pending"
    /\ payments' = Append(payments, [order_id |-> o, gateway |-> gateway,
                                     status |-> "processing"])
    /\ UNCHANGED <<products, next_product_id, orders, order_items, now, env_steps,
                   payouts, engineVars, text_in, kw_out, price_out, workers, builds,
                   model_files, class_out>>

\* create_seller_payouts: one row per item of order o, whatever rows exist.
RECURSIVE create_seller_payouts(_, _, _)
create_seller_payouts(items, o, i) ==
    IF i > Len(items) THEN <<>>
    ELSE (IF items[i].order_id = o
          THEN <<[order_id |-> o, order_item_id |-> i, status |-> "pending"]>>
          ELSE <<>>)
         \o create_seller_payouts(items, o, i + 1)

\* POST /payments/stripe/webhook with a payment_intent.succeeded event for
\* transaction t (handle_successful_payment). Stripe may deliver the event
\* of an intent more than once.
StripePaymentSucceeded(t) ==
    /\ resp = NoResp
    /\ t \in 1..Len(payments)
    /\ payments[t].gateway = "stripe"
    /\ Len(payouts) < MaxPayouts
    /\ LET o == payments[t].order_id
       IN /\ orders' = [orders EXCEPT ![o].status = "paid"]
          /\ payments' = [payments EXCEPT ![t].status = "completed"]
          /\ payouts' = payouts \o create_seller_payouts(order_items, o, 1)
    /\ UNCHANGED <<products, next_product_id, order_items, now, env_steps,
                   engineVars, text_in, kw_out, price_out, workers, builds,
                   model_files, class_out>>

\* POST /payments/stripe/webhook with a payment_intent.payment_failed event
\* (handle_failed_payment)
StripePaymentFailed(t) ==
    /\ resp = NoResp
    /\ t \in 1..Len(payments)
    /\ payments[t].gateway = "stripe"
    /\ payments[t].status # "failed"
    /\ payments' = [payments EXCEPT ![t].status = "failed"]
    /\ UNCHANGED <<products, next_product_id, orders, order_items, now, env_steps,
                   payouts, engineVars, text_in, kw_out, price_out, workers, builds,
                   model_files, class_out>>

\* POST /payments/paypal/execute for transaction t. PayPal executes an
\* approved payment once; a second execute fails at PayPal (PaymentError).
ExecutePayPalPayment(t) ==
    /\ resp = NoResp
    /\ t \in 1..Len(payments)
    /\ payments[t].gateway = "paypal"
    /\ payments[t].status = "processing"
    /\ Len(payouts) < MaxPayouts
    /\ LET o == payments[t].order_id
       IN /\ orders' = [orders EXCEPT ![o].status = "paid"]
          /\ payments' = [payments EXCEPT ![t].status = "completed"]
          /\ payouts' = payouts \o create_seller_payouts(order_items, o, 1)
    /\ UNCHANGED <<products, next_product_id, order_items, now, env_steps,
                   engineVars, text_in, kw_out, price_out, workers, builds,
                   model_files, class_out>>

InitOrdersSpec ==
    /\ products = OrderCatalog
    /\ next_product_id = 3
    /\ orders = <<>>
    /\ order_items = <<>>
    /\ now = 10
    /\ vector_file = NoFile
    /\ index_file = NoFile
    /\ service = NoService
    /\ resp = NoResp
    /\ env_steps = 0
    /\ text_in = <<>>
    /\ kw_out = NoKeywords
    /\ price_out = NoPriceOut
    /\ workers = NoWorkers
    /\ builds = {}
    /\ payments = <<>>
    /\ payouts = <<>>
    /\ model_files = NoModelFiles
    /\ class_out = NoClassOut

\* Checkout, cancellation, status updates and the trending query.
NextOrders ==
    \/ \E cart \in Carts : CreateOrder(1, cart)
    \/ \E u \in UserIds, o \in 1..MaxOrders : CancelOrder(u, o)
    \/ \E o \in 1..MaxOrders, st \in {"paid", "shipped", "cancelled", "refunded"} :
           UpdateOrderStatus(o, st)
    \/ GetTrendingProducts(MaxProductId, NoneInt)
    \/ Return

SpecOrders == InitOrdersSpec /\ [][NextOrders]_vars

\* Checkout, cancellation and the payment events of both gateways.
NextPayments ==
    \/ \E cart \in Carts : CreateOrder(1, cart)
    \/ \E u \in UserIds, o \in 1..MaxOrders : CancelOrder(u, o)
    \/ \E o \in 1..MaxOrders, g \in {"stripe", "paypal"} : CreatePayment(1, o, g)
    \/ \E t \in 1..MaxPayments : StripePaymentSucceeded(t)
    \/ \E t \in 1..MaxPayments : StripePaymentFailed(t)
    \/ \E t \in 1..MaxPayments : ExecutePayPalPayment(t)

SpecPayments == InitOrdersSpec /\ [][NextPayments]_vars

----------------------------------------------------------------------------
(* Properties of the recommendation engine (specification Spec) *)

\* The service a request arriving in the current state constructs.
CurrentService == LoadOrCreateVectorDb(products, vector_file, index_file).service

\* get_similar_products of a service constructed on the given files and catalog.
SimilarOn(vfile, ifile, db, p, k) ==
    LET svc == LoadOrCreateVectorDb(db, vfile, ifile).service
    IN get_similar_products(svc, db, p, k)

SimilarNow(p, k) == SimilarOn(vector_file, index_file, products, p, k)

ProductIdsOf(recs) == [i \in 1..Len(recs) |-> recs[i].product_id]

IdScores(recs) == [i \in 1..Len(recs) |-> <<recs[i].product_id, recs[i].score>>]

QueryLimits == Limits \cup {SimilarPerPurchase}

\* C1: get_similar_products(A, k) never returns an item whose product_id is A,
\* for every product id and limit, on the index a request builds or loads and
\* on the catalog as it is at the time of the query.
C1_SimilarExcludesSelf ==
    /\ resp = NoResp => \A p \in ProductIds, k \in QueryLimits :
          \A i \in 1..Len(SimilarNow(p, k)) : SimilarNow(p, k)[i].product_id # p
    /\ resp.strategy = "similar" =>
          \A i \in 1..Len(resp.result) : resp.result[i].product_id # resp.product_id

\* A similar-items request answered from loaded artifacts with a non-empty result.
C1_Witness ==
    /\ resp.strategy = "similar"
    /\ ~resp.built
    /\ HasEmbedding(service, resp.product_id)
    /\ Len(resp.result) >= 1

\* C2: no recommendation operation returns two items with the same product_id.
C2_NoDuplicateIds ==
    /\ NoDuplicates(ProductIdsOf(resp.result))
    /\ resp = NoResp => \A k \in QueryLimits :
          /\ \A p \in ProductIds : NoDuplicates(ProductIdsOf(SimilarNow(p, k)))
          /\ \A u \in UserIds :
                /\ NoDuplicates(ProductIdsOf(get_user_recommendations(
                       CurrentService, products, orders, order_items, u, k)))
                /\ NoDuplicates(ProductIdsOf(get_personalized_recommendations(
                       CurrentService, products, orders, order_items, u, k)))
          /\ \A c \in CategoryIds \cup {NoneInt} :
                /\ NoDuplicates(ProductIdsOf(get_category_recommendations(products, c, k)))
                /\ NoDuplicates(ProductIdsOf(get_trending_products(
                       products, orders, order_items, now, k, c)))
                /\ NoDuplicates(ProductIdsOf(get_new_arrivals(products, k, c)))
          /\ NoDuplicates(ProductIdsOf(get_popular_products(products, k)))

\* A user-history answer for a user who bought one product in two orders.
C2_Witness ==
    /\ resp.strategy = "user"
    /\ Len(resp.result) >= 1
    /\ \E i, j \in 1..Len(order_items) :
          /\ i # j
          /\ order_items[i].product_id = order_items[j].product_id
          /\ order_items[i].order_id # order_items[j].order_id
          /\ \A x \in {i, j} :
                /\ orders[order_items[x].order_id].buyer_id = resp.user_id
                /\ orders[order_items[x].order_id].status = "paid"
                   \/ orders[order_items[x].order_id].status = "delivered"

\* The user has no existing product in an order that is paid, processing,
\* shipped or delivered.
NoQualifyingPurchase(u) ==
    ~ \E i \in 1..Len(order_items) :
          /\ orders[order_items[i].order_id].buyer_id = u
          /\ orders[order_items[i].order_id].status
                 \in {"paid", "processing", "shipped", "delivered"}
          /\ products[order_items[i].product_id].exists

\* C3: for a user without qualifying purchase, get_user_recommendations(user,
\* limit) is exactly get_popular_products(limit) on the same catalog.
C3_NoHistoryIsPopular ==
    /\ resp = NoResp => \A u \in UserIds \cup {3}, k \in QueryLimits :
          NoQualifyingPurchase(u) =>
              get_user_recommendations(CurrentService, products, orders, order_items, u, k)
                  = get_popular_products(products, k)
    /\ (resp.strategy = "user" /\ NoQualifyingPurchase(resp.user_id)) =>
          resp.result = get_popular_products(products, resp.limit)

\* A user-history answer for a user whose only order is not a qualifying one.
C3_Witness ==
    /\ resp.strategy = "user"
    /\ NoQualifyingPurchase(resp.user_id)
    /\ \E o \in 1..Len(orders) : orders[o].buyer_id = resp.user_id
    /\ Len(resp.result) >= 2

\* A step between two calls that leaves the saved artifacts alone.
ArtifactsStay ==
    /\ resp = NoResp /\ resp' = NoResp
    /\ vector_file.exists /\ index_file.exists
    /\ vector_file' = vector_file /\ index_file' = index_file

IndexedIds == {PickleLoad(vector_file.bytes)[i].id : i \in 1..vector_file.bytes[1]}

\* C4 as stated: with the artifacts unchanged, every get_similar_products(p, k)
\* returns the same result before and after any change of the catalog.
C4_SameResultWhateverCatalog ==
    [][ArtifactsStay => \A p \in ProductIds, k \in QueryLimits :
                            SimilarOn(vector_file', index_file', products', p, k)
                                = SimilarNow(p, k)]_vars

\* C4 amended: with the artifacts unchanged and no indexed product deleted, the
\* ordered list of (product id, score) of every get_similar_products(p, k) is
\* the same before and after a change of the catalog (edit, deactivation,
\* creation, order, clock).
C4_SameIdsAndScores ==
    [][(ArtifactsStay /\ \A q \in IndexedIds : products'[q].exists = products[q].exists)
          => \A p \in ProductIds, k \in QueryLimits :
                 IdScores(SimilarOn(vector_file', index_file', products', p, k))
                     = IdScores(SimilarNow(p, k))]_vars

\* A similar-items answer from loaded artifacts that returns a product
\* deactivated or retitled after the build.
C4_Witness ==
    /\ resp.strategy = "similar"
    /\ ~resp.built
    /\ \E i \in 1..Len(resp.result) :
          \/ products[resp.result[i].product_id].status = "inactive"
          \/ products[resp.result[i].product_id].title = "case"

C8_PrecedenceBySupplied ==
    resp.endpoint = "products" =>
        resp.strategy = IF resp.user_id # NoneInt THEN "user"
                        ELSE IF resp.product_id # NoneInt THEN "similar"
                        ELSE IF resp.category_id # NoneInt THEN "category"
                        ELSE "popular"

\* Quantity of the purchases of p that the trending sum has to count at time t.
RECURSIVE WindowQuantity(_, _, _)
WindowQuantity(S, p, t) ==
    IF S = {} THEN 0
    ELSE LET i == CHOOSE x \in S : TRUE
             o == orders[order_items[i].order_id]
         IN (IF /\ order_items[i].product_id = p
                /\ o.status \in {"paid", "processing", "shipped", "delivered"}
                /\ o.created_at + 7 >= t
             THEN order_items[i].quantity ELSE 0)
            + WindowQuantity(S \ {i}, p, t)

PurchasedInWindow(p, t) ==
    \E i \in 1..Len(order_items) :
        /\ order_items[i].product_id = p
        /\ orders[order_items[i].order_id].status
               \in {"paid", "processing", "shipped", "delivered"}
        /\ orders[order_items[i].order_id].created_at + 7 >= t

\* C9: at time T the trending sum of a product is the quantity of its
\* purchases created at or after T - 7 days, the boundary included; a product
\* whose purchases are all older is not returned. With P1 bought at T-3d and
\* P2 at T-10d, only P1 is returned, with its quantity.
C9_TrendingWindow ==
    /\ resp = NoResp =>
       LET r == get_trending_products(products, orders, order_items, now,
                                      MaxProductId, NoneInt)
       IN /\ \A i \in 1..Len(r) :
                /\ PurchasedInWindow(r[i].product_id, now)
                /\ r[i].score = WindowQuantity(1..Len(order_items), r[i].product_id, now)
          /\ \A p \in ActiveIds :
                PurchasedInWindow(p, now) => \E i \in 1..Len(r) : r[i].product_id = p
    /\ resp.endpoint = "trending" =>
          \A i \in 1..Len(resp.result) :
             /\ PurchasedInWindow(resp.result[i].product_id, now)
             /\ resp.result[i].score
                    = WindowQuantity(1..Len(order_items), resp.result[i].product_id, now)
    /\ (resp.endpoint = "trending" /\ products = InitProducts /\ orders = InitOrders
            /\ now = 10 /\ resp.category_id = NoneInt /\ resp.limit >= 1) =>
          IdScores(resp.result) = << <<1, 2>> >>

\* A trending answer that counts a purchase created exactly 7 days before.
C9_Witness ==
    /\ resp.endpoint = "trending"
    /\ \E i \in 1..Len(order_items), j \in 1..Len(resp.result) :
          /\ order_items[i].product_id = resp.result[j].product_id
          /\ orders[order_items[i].order_id].created_at = now - 7
          /\ orders[order_items[i].order_id].status = "paid"
          /\ resp.result[j].score = order_items[i].quantity

\* The embedding map and the index of svc have the same entries in the same
\* order (an index that is None goes with an empty map).
Aligned(svc) ==
    IF svc.index.present
    THEN /\ Len(svc.product_embeddings) = Len(svc.index.xb)
         /\ \A i \in 1..Len(svc.index.xb) :
               svc.product_embeddings[i].emb = svc.index.xb[i]
    ELSE svc.product_embeddings = <<>>

\* C16: the service of every answered request, built or loaded, after any
\* catalog change, has an embedding map and an index of the same length, the
\* i-th key of the map being the product whose vector is at position i.
C16_MapMatchesIndex ==
    (resp # NoResp /\ resp.status = 200) =>
        /\ Aligned(service)
        /\ NoDuplicates(Keys(service.product_embeddings))

\* A request answered from loaded artifacts of several products, after a
\* change of the catalog.
C16_Witness ==
    /\ resp # NoResp
    /\ resp.status = 200
    /\ ~resp.built
    /\ env_steps >= 1
    /\ Len(service.product_embeddings) >= 3
    /\ service.product_embeddings[1].emb # service.product_embeddings[3].emb

----------------------------------------------------------------------------
(* Properties of the price range estimator (specification SpecPrice) *)

\* The active products of the category, with their stored prices.
PricedIn(c) == {p \in DOMAIN products :
                   /\ products[p].exists
                   /\ products[p].status = "active"
                   /\ products[p].price # NullPrice
                   /\ products[p].category_id = c}

RECURSIVE PriceSum(_)
PriceSum(S) == IF S = {} THEN 0
               ELSE LET p == CHOOSE x \in S : TRUE
                    IN products[p].price + PriceSum(S \ {p})

LowestPrice(S) == CHOOSE x \in {products[p].price : p \in S} :
                      \A p \in S : x <= products[p].price

HighestPrice(S) == CHOOSE x \in {products[p].price : p \in S} :
                       \A p \in S : x >= products[p].price

\* C6 as stated: for a category with an active priced product, whatever the
\* stored prices, min(prices) <= average <= max(prices) and the suggested
\* minimum is at most the suggested maximum.
C6_RangeIsOrdered ==
    (price_out.called /\ PricedIn(price_out.category_id) # {}) =>
        LET r == price_out.range
            S == PricedIn(price_out.category_id)
        IN /\ r.found
           /\ LowestPrice(S) * r.den <= r.average_price
           /\ r.average_price <= HighestPrice(S) * r.den
           /\ r.min_price <= r.max_price

\* C7: for a category with active priced products the result is
\* minimum = max(min(prices), 0.7 * mean), maximum = min(max(prices), 1.3 * mean),
\* average = mean; prices 10, 20, 30, 40, 50 give 21, 39 and 30.
C7_RangeFormula ==
    /\ (price_out.called /\ PricedIn(price_out.category_id) # {}) =>
          LET r == price_out.range
              S == PricedIn(price_out.category_id)
              n == Cardinality(S)
              lo == LowestPrice(S) * 10 * n
              hi == HighestPrice(S) * 10 * n
              lo7 == 7 * PriceSum(S)
              hi13 == 13 * PriceSum(S)
          IN /\ r.found
             /\ r.den > 0
             /\ r.average_price * n = PriceSum(S) * r.den
             /\ r.min_price * 10 * n = (IF lo >= lo7 THEN lo ELSE lo7) * r.den
             /\ r.max_price * 10 * n = (IF hi <= hi13 THEN hi ELSE hi13) * r.den
    /\ (price_out.called /\ price_out.category_id = 1
            /\ products = PriceCatalog(ScenarioPrices)) =>
          /\ price_out.range.found
          /\ price_out.range.min_price = 2100 * price_out.range.den
          /\ price_out.range.max_price = 3900 * price_out.range.den
          /\ price_out.range.average_price = 3000 * price_out.range.den

\* The estimator has answered for the category priced 10, 20, 30, 40, 50.
C7_Witness ==
    /\ price_out.called
    /\ price_out.category_id = 1
    /\ products = PriceCatalog(ScenarioPrices)
    /\ price_out.range.found

----------------------------------------------------------------------------
(* Properties of keyword extraction (specification SpecKeywords) *)

Lowered(i) == LowerChar(text_in[i])

\* Positions a..b hold a maximal run of word characters of the text.
IsToken(a, b) ==
    /\ a <= b
    /\ \A i \in a..b : IsWordChar(Lowered(i))
    /\ a = 1 \/ ~IsWordChar(Lowered(a - 1))
    /\ b = Len(text_in) \/ ~IsWordChar(Lowered(b + 1))

Token(a, b) == [i \in 1..(b - a + 1) |-> Lowered(a + i - 1)]

Occurrences(w) == {a \in 1..Len(text_in) :
                      \E b \in a..Len(text_in) : IsToken(a, b) /\ Token(a, b) = w}

FirstOccurrence(w) == CHOOSE a \in Occurrences(w) : \A x \in Occurrences(w) : a <= x

\* C10: the keywords are the lowercased maximal runs of word characters of the
\* text that are longer than 2 and no stop-word, each once, in the order of
\* their first occurrence; "Red Leather Wallet for Men" gives red, leather,
\* wallet, men.
C10_Keywords ==
    kw_out.called =>
        LET kw == kw_out.keywords
        IN /\ \A i \in 1..Len(kw) :
                 /\ Len(kw[i]) >= 3
                 /\ kw[i] \notin stop_words
                 /\ Occurrences(kw[i]) # {}
           /\ \A a \in 1..Len(text_in), b \in 1..Len(text_in) :
                 (IsToken(a, b) /\ b - a >= 2 /\ Token(a, b) \notin stop_words)
                     => \E i \in 1..Len(kw) : kw[i] = Token(a, b)
           /\ NoDuplicates(kw)
           /\ \A i, j \in 1..Len(kw) :
                 i < j => FirstOccurrence(kw[i]) < FirstOccurrence(kw[j])
           /\ text_in = Sentence => kw = <<<<"r", "e", "d">>, <<"l", "e", "a", "t", "h", "e", "r">>, <<"w", "a", "l", "l", "e", "t">>, <<"m", "e", "n">>>>

\* The keywords of "Red Leather Wallet for Men" have been extracted.
C10_Witness ==
    /\ kw_out.called
    /\ text_in = Sentence
    /\ Len(kw_out.keywords) = 4

----------------------------------------------------------------------------
(* Properties of the endpoints on enumerated catalogs (specification       *)
(* SpecCatalog)                                                            *)

ArtifactsReadable ==
    /\ vector_file.exists /\ PickleReadable(vector_file.bytes)
    /\ index_file.exists /\ IndexReadable(index_file.bytes)

\* C11 as stated: a request whose service finds an artifact missing or
\* unreadable rebuilds the index and is answered; no request ends with the
\* load failure as its error.
C11_LoadFailureRebuilds ==
    resp # NoResp => /\ resp.status = 200
                     /\ resp.built \/ ArtifactsReadable

\* C13: get_similar_products for a product id without stored embedding returns
\* the empty list without error; a build from a catalog without active product
\* completes without error and the service then answers every
\* get_similar_products with the empty list.
C13_MissingDataIsEmpty ==
    /\ (resp.strategy = "similar" /\ ~HasEmbedding(service, resp.product_id)
            /\ (resp.built \/ ArtifactsReadable)) =>
          resp.status = 200 /\ resp.result = <<>>
    /\ (resp.built /\ ActiveIds = {}) =>
          /\ resp.status = 200
          /\ service.product_embeddings = <<>>
          /\ \A p \in ProductIds, k \in QueryLimits :
                get_similar_products(service, products, p, k) = <<>>

\* A similar-items request for an existing product, answered by a service
\* that was built on a catalog without active product.
C13_Witness ==
    /\ resp.strategy = "similar"
    /\ resp.built
    /\ ActiveIds = {}
    /\ Exists(resp.product_id)
    /\ resp.limit >= 1

\* The positions of the index by decreasing inner product with the vector
\* stored for product p.
Ranking(p) ==
    Ranked(service.index.xb, EmbeddingOf(service, p), 0..(Len(service.index.xb) - 1))

\* The products at the first n positions of the ranking, without p and without
\* the products the catalog no longer holds.
NeighboursWithin(p, n) ==
    LET r == Take(Ranking(p), n)
        ids == [i \in 1..Len(r) |-> service.product_embeddings[r[i].idx + 1].id]
    IN SelectSeq(ids, LAMBDA x : x # p /\ products[x].exists)

\* C17: get_similar_products(A, k) returns the products among the k+1 best
\* neighbours of A other than A, at most k of them, in the order of the index,
\* with non-increasing scores, for every k >= 0.
C17_NeighboursInIndexOrder ==
    (resp.strategy = "similar" /\ resp.status = 200
        /\ HasEmbedding(service, resp.product_id)) =>
        LET r == resp.result
        IN /\ Len(r) <= resp.limit
           /\ \A i \in 1..Len(r) : r[i].product_id # resp.product_id
           /\ \A i, j \in 1..Len(r) : i < j => r[i].score >= r[j].score
           /\ ProductIdsOf(r)
                 = Take(NeighboursWithin(resp.product_id, resp.limit + 1), resp.limit)

\* A similar-items answer of exactly k >= 2 items, one neighbour being left out.
C17_Witness ==
    /\ resp.strategy = "similar"
    /\ resp.status = 200
    /\ resp.limit >= 2
    /\ Len(resp.result) = resp.limit
    /\ Len(service.product_embeddings) > resp.limit + 1

\* The order items of the qualifying purchases of u whose product the catalog
\* still holds.
QualifyingItems(u) ==
    {i \in 1..Len(order_items) :
        /\ orders[order_items[i].order_id].buyer_id = u
        /\ orders[order_items[i].order_id].status
               \in {"paid", "processing", "shipped", "delivered"}
        /\ products[order_items[i].product_id].exists}

Bought(u) == {order_items[i].product_id : i \in QualifyingItems(u)}

\* The similar items (at most 5 each) of the products of the listed order
\* items, one list after the other.
RECURSIVE SimilarConcat(_)
SimilarConcat(idxs) ==
    IF idxs = <<>> THEN <<>>
    ELSE get_similar_products(service, products, order_items[idxs[1]].product_id, 5)
         \o SimilarConcat(Tail(idxs))

\* The entries of recs that are the first of their product id and whose
\* product is not excluded, in the order of recs.
FirstEntries(recs, excluded) ==
    LET firsts == {j \in 1..Len(recs) :
                      /\ recs[j].product_id \notin excluded
                      /\ \A i \in 1..(j - 1) : recs[i].product_id # recs[j].product_id}
        js == IdList(firsts)
    IN [i \in 1..Len(js) |-> recs[js[i]]]

\* C18: for a user with qualifying purchases the answer has at most limit
\* items, none of them purchased by the user, and is the start of the
\* first-occurrence entries of the concatenation, in purchase order, of the 5
\* similar items of each purchased product.
C18_HistoryFirstOccurrences ==
    (resp.strategy = "user" /\ resp.status = 200
        /\ QualifyingItems(resp.user_id) # {}) =>
        LET u == resp.user_id
            cat == SimilarConcat(IdList(QualifyingItems(u)))
        IN /\ Len(resp.result) <= resp.limit
           /\ \A i \in 1..Len(resp.result) : resp.result[i].product_id \notin Bought(u)
           /\ resp.result = Take(FirstEntries(cat, Bought(u)), resp.limit)

\* A user-history answer of two items for a user who bought two products,
\* one item being similar to both with different scores.
C18_Witness ==
    /\ resp.strategy = "user"
    /\ resp.status = 200
    /\ Cardinality(Bought(resp.user_id)) >= 2
    /\ Len(resp.result) >= 2
    /\ LET cat == SimilarConcat(IdList(QualifyingItems(resp.user_id)))
       IN \E i, j \in 1..Len(cat) :
             /\ i < j
             /\ cat[i].product_id = cat[j].product_id
             /\ cat[i].score # cat[j].score
             /\ cat[i] = resp.result[1]

\* C19: the personalized answer is the first-occurrence deduplication of
\* user-history(limit / 2) followed by Popular(limit / 2), cut to limit: the
\* user-history items come first, and a product of both lists appears once,
\* with the entry of the user-history list.
C19_PersonalizedMerge ==
    (resp.endpoint = "personalized" /\ resp.status = 200) =>
        LET h == get_user_recommendations(service, products, orders, order_items,
                                          resp.user_id, resp.limit \div 2)
            pop == get_popular_products(products, resp.limit \div 2)
            r == resp.result
            hids == Range(ProductIdsOf(h))
        IN /\ r = Take(FirstEntries(h \o pop, {}), resp.limit)
           /\ Len(r) <= resp.limit
           /\ NoDuplicates(ProductIdsOf(r))
           /\ \A i, j \in 1..Len(r) :
                 (r[i].product_id \in hids /\ r[j].product_id \notin hids) => i < j
           /\ \A i \in 1..Len(r) :
                 r[i].product_id \in hids => r[i] \in Range(h)

\* A personalized answer with a similar item that is also a popular one,
\* followed by an item of the popular list only.
C19_Witness ==
    /\ resp.endpoint = "personalized"
    /\ resp.status = 200
    /\ \E i, j \in 1..Len(resp.result) :
          /\ i < j
          /\ resp.result[i].reason = "Similar product"
          /\ resp.result[i].product_id
                \in Range(ProductIdsOf(get_popular_products(products, resp.limit \div 2)))
          /\ resp.result[j].reason = "Popular product"

----------------------------------------------------------------------------
(* Properties of concurrent requests (specification SpecWorkers) *)

----------------------------------------------------------------------------
(* Properties of the classification endpoints (SpecClassify)               *)

\* The prediction of the answered classify request failed at some step.
PredictionFailed ==
    /\ class_out.called /\ class_out.op = "classify"
    /\ class_out.classifier.present
    /\ class_out.predict.raised \/ class_out.proba.raised

\* C14: when the category prediction fails at any step (predict or
\* predict_proba raises), classify_product raises nothing and answers with
\* no category: the default category id, the name "Unknown" and the
\* confidence 0.0.
C14_FailedPredictionIsUnknown ==
    PredictionFailed =>
        /\ class_out.status = 200
        /\ class_out.result.category_id = DefaultCategoryId
        /\ class_out.result.category_name = "Unknown"
        /\ class_out.result.confidence = 0

\* C15: classify_product gives a suggested_price_range exactly when there is
\* a predicted category and that category has an active product with a
\* price; otherwise the range is None.
C15_PriceRangeOnlyFromPricedCategory ==
    (class_out.called /\ class_out.op = "classify") =>
        (class_out.result.suggested_price_range.found <=>
            /\ Truthy(class_out.predicted)
            /\ \E p \in ProductIds :
                   /\ products[p].exists
                   /\ products[p].status = "active"
                   /\ products[p].category_id = class_out.predicted
                   /\ products[p].price # NullPrice)

\* A range was suggested for a predicted category.
C15_Witness ==
    /\ class_out.called /\ class_out.op = "classify"
    /\ class_out.result.suggested_price_range.found
    /\ class_out.predicted = 2

\* C20: every tag _get_category_tags returns is carried by an active product
\* of the category, and at most 10 distinct tags are returned.
C20_CategoryTagsFromActive ==
    (class_out.called /\ class_out.op = "auto-tag") =>
        /\ Len(class_out.category_tags) <= CategoryTagLimit
        /\ \A i, j \in 1..Len(class_out.category_tags) :
               i # j => class_out.category_tags[i] # class_out.category_tags[j]
        /\ \A i \in 1..Len(class_out.category_tags) :
               \E p \in ProductIds :
                   /\ products[p].exists
                   /\ products[p].status = "active"
                   /\ products[p].category_id = class_out.category_id
                   /\ \E k \in 1..Len(products[p].tags) :
                          products[p].tags[k] = class_out.category_tags[i]

\* Occurrences of tag t in the keyword list followed by the category tags of
\* the answered auto-tag request.
TagCount(t) ==
    LET all_tags == class_out.keywords \o class_out.category_tags
    IN Cardinality({i \in 1..Len(all_tags) : all_tags[i] = t})

\* C21: generate_tags returns at most 10 distinct tags in the order of
\* non-increasing count, the count of a tag being its occurrences in the
\* keywords followed by the category tags; confidence_scores maps exactly
\* the returned tags to these counts.
C21_TopTagsByCount ==
    (class_out.called /\ class_out.op = "auto-tag") =>
        LET tags == class_out.result.tags
            scores == class_out.result.confidence_scores
        IN /\ Len(tags) <= TopTagLimit
           /\ \A i, j \in 1..Len(tags) : i # j => tags[i] # tags[j]
           /\ \A i, j \in 1..Len(tags) : i < j => TagCount(tags[i]) >= TagCount(tags[j])
           /\ \A i \in 1..Len(tags) : TagCount(tags[i]) >= 1
           /\ DOMAIN scores = {tags[i] : i \in 1..Len(tags)}
           /\ \A t \in DOMAIN scores : scores[t] = TagCount(t)

\* A tag counted twice is returned before a keyword that came first in the text.
C21_Witness ==
    /\ class_out.called /\ class_out.op = "auto-tag"
    /\ Len(class_out.result.tags) >= 2
    /\ Len(class_out.keywords) >= 2
    /\ class_out.result.tags[1] # class_out.keywords[1]
    /\ class_out.result.confidence_scores[class_out.result.tags[1]] = 2
    /\ class_out.result.confidence_scores[class_out.result.tags[2]] = 1

----------------------------------------------------------------------------
(* Properties of the construction of the services (SpecStartup)            *)

\* Products whose status is active now.
ActiveNow == {p \in ProductIds : products[p].exists /\ products[p].status = "active"}

\* Keys of the embedding map stored in product_embeddings.pkl.
StoredKeys ==
    LET m == PickleLoad(vector_file.bytes)
    IN {m[i].id : i \in 1..Len(m)}

\* C22: every build uses only the products that are active at the time of
\* the build: the keys of a built embedding map are the active product ids,
\* and the classifier is trained on the active products only (its classes
\* are their categories, the tag model uses their tags); draft, inactive and
\* archived products contribute nothing.
C22_BuildsUseActiveOnly ==
    /\ (resp # NoResp /\ resp.built) =>
           {service.product_embeddings[i].id : i \in 1..Len(service.product_embeddings)}
               = ActiveNow
    /\ (class_out.called /\ class_out.op = "bulk-classify" /\ class_out.built) =>
           /\ class_out.trained_on = ActiveNow
           /\ class_out.tags_from \subseteq ActiveNow
           /\ ActiveNow # {} =>
                  class_out.classifier.classes = {products[p].category_id : p \in ActiveNow}

\* Both services were built from a catalog that holds active products and
\* products that are not active.
C22_Witness ==
    /\ class_out.called /\ class_out.op = "bulk-classify" /\ class_out.built
    /\ class_out.trained_on # {}
    /\ \E p \in ProductIds : products[p].exists /\ products[p].status \in {"draft", "archived"}
    /\ \E p \in ProductIds : products[p].exists /\ products[p].status = "inactive"
    /\ vector_file.exists /\ index_file.exists
    /\ StoredKeys = ActiveNow

\* A recommendation request is answered in this step.
VectorConstruction == resp = NoResp /\ resp' # NoResp

\* A classification request is answered in this step.
ClassifierConstruction == ~class_out.called /\ class_out'.called

\* The vector service loads when both artifacts are stored, and otherwise
\* builds from the live catalog and saves what it built; the answer is
\* computed on the service so obtained.
VectorLoadsOrBuilds ==
    VectorConstruction =>
        /\ IF vector_file.exists /\ index_file.exists
           THEN /\ ~resp'.built
                /\ vector_file' = vector_file /\ index_file' = index_file
                /\ service'.product_embeddings = PickleLoad(vector_file.bytes)
                /\ service'.index = ReadIndex(index_file.bytes)
           ELSE /\ resp'.built
                /\ {service'.product_embeddings[i].id :
                        i \in 1..Len(service'.product_embeddings)} = ActiveNow
                /\ IF service'.index # NoIndex
                   THEN /\ vector_file'.exists /\ index_file'.exists
                        /\ PickleLoad(vector_file'.bytes) = service'.product_embeddings
                        /\ ReadIndex(index_file'.bytes) = service'.index
                   ELSE vector_file' = vector_file /\ index_file' = index_file
        /\ resp'.result = get_similar_products(service', products, resp'.product_id,
                                               resp'.limit)

\* The classification service loads when both model files are stored, and
\* otherwise builds from the live catalog and saves every model it holds.
ClassifierLoadsOrBuilds ==
    ClassifierConstruction =>
        IF model_files.category.exists /\ model_files.tag
        THEN /\ ~class_out'.built
             /\ model_files' = model_files
             /\ class_out'.classifier = [present |-> TRUE,
                                         classes |-> model_files.category.classes]
             /\ class_out'.tag_classifier
        ELSE /\ class_out'.built
             /\ class_out'.trained_on = ActiveNow
             /\ IF class_out'.trained_on # {}
                THEN /\ class_out'.classifier.present
                     /\ model_files'.category =
                            [exists |-> TRUE, classes |-> class_out'.classifier.classes]
                     /\ model_files'.tag = class_out'.tag_classifier
                ELSE model_files' = model_files

\* C23: at construction each service loads its artifacts when they are in
\* storage and performs no build; when an artifact is absent it builds from
\* the live catalog and saves every artifact it built, before the query is
\* served.
C23_LoadOrBuildThenSave == [][VectorLoadsOrBuilds /\ ClassifierLoadsOrBuilds]_vars

\* A classification service was loaded from the two files that an earlier
\* construction built and saved, and the vector artifacts are stored.
C23_Witness ==
    /\ class_out.called /\ class_out.op = "bulk-classify"
    /\ ~class_out.built
    /\ class_out.classifier.present /\ class_out.tag_classifier
    /\ vector_file.exists /\ index_file.exists
    /\ StoredKeys # {1, 2, 3, 4}

----------------------------------------------------------------------------
(* Stored vector artifacts under catalog changes (Spec)                    *)

\* C24: once the embedding map file and the index file both exist, no later
\* construction and no query rebuilds or rewrites them, whatever products
\* are added, deactivated or deleted: every later instance serves the
\* embedding map that was persisted.
C24_ArtifactsNeverRewritten ==
    [][(vector_file.exists /\ index_file.exists) =>
           /\ vector_file' = vector_file
           /\ index_file' = index_file
           /\ (resp = NoResp /\ resp' # NoResp) =>
                  /\ ~resp'.built
                  /\ service'.product_embeddings = PickleLoad(vector_file.bytes)
                  /\ service'.index = ReadIndex(index_file.bytes)]_vars

\* A request is served from loaded artifacts whose keys are no longer the
\* active products of the catalog.
C24_Witness ==
    /\ resp # NoResp /\ ~resp.built /\ resp.status = 200
    /\ vector_file.exists /\ index_file.exists
    /\ StoredKeys # ActiveNow
    /\ {service.product_embeddings[i].id : i \in 1..Len(service.product_embeddings)}
           = StoredKeys

----------------------------------------------------------------------------
(* Retraining of the classification models (SpecStartup)                   *)

\* The category classifier file is written only at the end of a build that
\* trained on at least one active product, so it exists exactly in the
\* storage left by such a construction.

\* C25: after a construction has trained the models from a catalog with at
\* least one active categorized product, every following construction with
\* unchanged storage loads the saved models and performs no training,
\* whether or not any product carries tags.
C25_TrainedOnce ==
    [][(ClassifierConstruction /\ model_files.category.exists) =>
           /\ ~class_out'.built
           /\ class_out'.trained_on = {}
           /\ model_files' = model_files]_vars

\* C25 amended: a following construction loads the saved models and performs
\* no training exactly when the tag model file was written as well, that is
\* when some active product of a training catalog carried tags; without the
\* tag model file every construction enters the build again and trains again
\* on the active products of the catalog of that time.
C25_TrainedOnceIfTagged ==
    [][(ClassifierConstruction /\ model_files.category.exists) =>
           IF model_files.tag
           THEN /\ ~class_out'.built
                /\ class_out'.trained_on = {}
                /\ model_files' = model_files
           ELSE /\ class_out'.built
                /\ class_out'.trained_on = ActiveNow
                /\ ActiveNow # {} =>
                       model_files'.category.classes =
                           {products[p].category_id : p \in ActiveNow}]_vars

\* A construction trained again although the category classifier was stored.
C25_Witness ==
    /\ class_out.called /\ class_out.op = "bulk-classify"
    /\ class_out.loaded_category
    /\ class_out.built /\ class_out.trained_on # {}
    /\ model_files.category.exists /\ ~model_files.tag
    /\ \A p \in ActiveNow : products[p].tags = <<>>

----------------------------------------------------------------------------
(* Status of the recommended products (Spec)                               *)

----------------------------------------------------------------------------
(* Purchases without a stored embedding (SpecCatalog)                      *)

\* Keys of the embedding map of the service that answered.
ServiceKeys ==
    {service.product_embeddings[i].id : i \in 1..Len(service.product_embeddings)}

\* C27: get_user_recommendations falls back to Popular only when the user
\* has no qualifying purchased product: for a user with qualifying
\* purchases none of which has a stored embedding it returns the empty
\* list, not the Popular list.
C27_NoEmbeddingIsEmpty ==
    (resp.strategy = "user" /\ resp.status = 200
        /\ QualifyingItems(resp.user_id) # {}
        /\ Bought(resp.user_id) \cap ServiceKeys = {}) =>
        resp.result = <<>>

\* Such a user asked for at least one item while Popular is not empty.
C27_Witness ==
    /\ resp.strategy = "user" /\ resp.status = 200
    /\ QualifyingItems(resp.user_id) # {}
    /\ Bought(resp.user_id) \cap ServiceKeys = {}
    /\ resp.limit >= 1
    /\ get_popular_products(products, resp.limit) # <<>>

----------------------------------------------------------------------------
(* Properties of orders and stock (SpecOrders)                             *)

\* Total quantity of product p in the order items whose order has a status
\* in statuses.
RECURSIVE QuantityIn(_, _, _)
QuantityIn(p, statuses, i) ==
    IF i > Len(order_items) THEN 0
    ELSE (IF order_items[i].product_id = p
             /\ orders[order_items[i].order_id].status \in statuses
          THEN order_items[i].quantity ELSE 0)
         + QuantityIn(p, statuses, i + 1)

\* C28: get_trending_products counts a purchase only when its order is paid,
\* processing, shipped or delivered: the quantities of pending, cancelled
\* and refunded orders of the window add nothing, and an order cancelled or
\* refunded later no longer counts. (Every order here is inside the window.)
C28_OnlyQualifyingOrdersCount ==
    (resp.endpoint = "trending" /\ resp.status = 200) =>
        /\ \A i \in 1..Len(resp.result) :
               /\ resp.result[i].score =
                      QuantityIn(resp.result[i].product_id, OrderStatuses, 1)
                      - QuantityIn(resp.result[i].product_id,
                                   {"pending", "cancelled", "refunded"}, 1)
               /\ resp.result[i].score > 0
        /\ \A p \in ProductIds :
               (products[p].exists /\ products[p].status = "active"
                   /\ QuantityIn(p, {"paid", "processing", "shipped", "delivered"}, 1) > 0)
                   => \E i \in 1..Len(resp.result) : resp.result[i].product_id = p

\* A trending answer that counts one order of a product and leaves out a
\* cancelled or refunded order of the same product.
C28_Witness ==
    /\ resp.endpoint = "trending" /\ resp.status = 200
    /\ \E i \in 1..Len(resp.result) :
          /\ QuantityIn(resp.result[i].product_id, {"cancelled", "refunded"}, 1) > 0
          /\ resp.result[i].score > 0

----------------------------------------------------------------------------
(* Properties of payments and seller payouts (SpecPayments)                *)

============================================================================
